---- MODULE Spec2Model ----
(***************************************************************************)
(* Client side of a NETCONF session (src/src/session_client.c): the        *)
(* message pump get_msg() with its two queues, nc_recv_reply(),            *)
(* nc_recv_notif() and the locking part of nc_send_rpc(), called by        *)
(* several threads that share one session.                                 *)
(*                                                                         *)
(* The two queues are the singly linked lists of struct nc_msg_cont: a     *)
(* head pointer per queue and a next pointer per container.  A container   *)
(* is identified by the message it holds; every message the server emits   *)
(* is distinct (a reply by its message-id, a notification by its position  *)
(* in the notification stream).                                            *)
(*                                                                         *)
(* Timeouts are not stored: a call with a finite timeout may give up       *)
(* whenever the lock is held by another thread or the transport has no     *)
(* message, a call with an infinite timeout simply does not take that      *)
(* step.                                                                   *)
(***************************************************************************)
EXTENDS Integers, Sequences, FiniteSets, TLC

\* number of client threads sharing the session
NumThreads == 2
\* number of RPCs sent over the life of the session
MaxSend == 2
\* number of notifications the server emits
MaxNotif == 2
\* number of messages a client must not receive that the server emits
MaxBad == 1

Threads == 1..NumThreads
\* value of ti_lock when the mutex is not locked
NoThread == 0

\* children of an <rpc-reply>: element name and namespace
Elem(n, ns) == [name |-> n, ns |-> ns]
OkElem == Elem("ok", "base")
RpcErrorElem == Elem("rpc-error", "base")

\* messages: an <rpc-reply> carries its message-id (0: no such attribute) and
\* its children, a <notification> its position in the server's notification
\* stream
ReplyWith(k, b) == [type |-> "reply", id |-> k, body |-> b]
Reply(k) == ReplyWith(k, <<OkElem>>)
Notif(n) == [type |-> "notif", id |-> n]
NULL == [type |-> "null", id |-> 0]
Replies == {Reply(k) : k \in 1..MaxSend}
Notifs == {Notif(n) : n \in 1..MaxNotif}
\* the <rpc-reply> to request k that carries <data>
DataElem == Elem("data", "ietf-netconf-monitoring")
DataReply(k) == ReplyWith(k, <<DataElem>>)
DataReplies == {DataReply(k) : k \in 1..MaxSend}
Messages == Replies \cup Notifs \cup DataReplies
\* messages that violate the protocol: a <hello> after the handshake, an
\* <rpc> sent to a client, an <rpc-reply> without the message-id attribute
Hello == [type |-> "hello", id |-> 0]
Rpc == [type |-> "rpc", id |-> 0]
\* bodies that parse_reply() rejects whatever the rpc was: no child, and
\* <rpc-error> with a sibling that is no <rpc-error>
MalformedBodies == { <<>>, <<RpcErrorElem, OkElem>> }
MalformedReplies == {ReplyWith(k, b) : k \in 1..MaxSend, b \in MalformedBodies}
BadMessages == {Hello, Rpc, Reply(0)} \cup MalformedReplies

VARIABLES
    ti_lock,    \* session->ti_lock: the thread the mutex is locked by, or NoThread
    msgid,      \* session->msgid
    replies,    \* session->replies: head of the reply queue
    notifs,     \* session->notifs: head of the notification queue
    next,       \* struct nc_msg_cont.next of the container of each message
    freed,      \* containers given to free()
    aborted,    \* the process was killed by the allocator (double free)
    status,     \* session->status
    side,       \* session->side
    ntf_tid,    \* session->ntf_tid is set: a notification thread was started
    wire,       \* messages the server has written and the client has not read
    answered,   \* message-ids the server has answered
    emitted,    \* number of notifications the server has emitted
    junk,       \* number of protocol-violating messages the server has emitted
    pc,         \* position of each thread
    op,         \* API function each thread called last
    want,       \* get_msg()'s msgid argument
    cont,       \* get_msg()'s local cont
    xml,        \* get_msg()'s local xml
    wrote,      \* message-id nc_send_msg() put on the wire for this call
    ret,        \* value the last call of each thread returned
    msg,        \* *msg of get_msg(): the message handed to the caller
    out_msgid,  \* *msgid of nc_send_rpc()
    before,     \* both queues as get_msg() found them when it took the lock
    dropped,    \* the message the call gave to lyxml_free() as a protocol violation
    log,        \* what the call reported with ERRARG or ERR() before it locked
    data,       \* nc_send_rpc()'s local data: the tree built from the rpc
    yielded,    \* message-ids whose reply a get_msg() call has handed to its caller
    hello,      \* the capabilities the peer advertises in its <hello>
    cpblts,     \* session->cpblts: the capability strings of the peer
    ctx,        \* session->ctx: the modules in the schema context
    clb,        \* the module retrieval callback that is set in session->ctx
    fill,       \* nc_ctx_check_and_fill(): its position and its locals
    failed,     \* the capabilities whose module no attempt could load
    features,   \* the features of ietf-netconf that lys_features_enable() enabled
    fetch,      \* libyang_module_clb() of each thread: its position and its msgid
    call,       \* a call of a function looked at on its own: its position, its
                \* arguments and what it returned; or the threads that
                \* pthread_create() started
    ntf         \* nc_recv_notif_thread(): its position and the calls of notif_clb

session == <<ti_lock, msgid, replies, notifs, next, freed, aborted, status, side, ntf_tid>>
server == <<wire, answered, emitted, junk>>
locals == <<pc, op, want, cont, xml, wrote, ret, msg, out_msgid, before, dropped, log, data>>
loader == <<hello, cpblts, ctx, clb, fill, failed, features, fetch, call, ntf>>
vars == <<session, server, locals, yielded, loader>>

----------------------------------------------------------------------------
\* the messages of the list that starts at container c, head first
RECURSIVE ListFrom(_)
ListFrom(c) == IF c = NULL THEN <<>> ELSE <<c>> \o ListFrom(next[c])

\* the tail walk "while (*cont_ptr) cont_ptr = &(*cont_ptr)->next" followed by
\* the store of the new container: the new head pointer and next pointers
LastOf(c) == LET l == ListFrom(c) IN l[Len(l)]
AppendHead(head, m) == IF head = NULL THEN m ELSE head
AppendNext(head, m) ==
    IF head = NULL THEN [next EXCEPT ![m] = NULL]
    ELSE [next EXCEPT ![LastOf(head)] = m, ![m] = NULL]

\* a scan that leaves the container it has examined at the head of the queue
UnlinkKept(c) == c

\* "session->replies = cont->next", "session->notifs = cont->next": the head
\* of a queue once container c has been taken out
Unlink(c) == next[c]

\* a test of the message-id attribute that every message passes
HasMessageIdAlways(m) == TRUE

\* lyxml_get_attr(xml, "message-id", NULL) finds the attribute
HasMessageId(m) == m.id # 0

\* a parse_reply() that accepts every body
parse_reply_any(children, rpc_type, parsed) == "NC_RPL_OK"

\* a switch that defines output for every rpc
HasOutputAlways(rpc_type) == TRUE

\* parse_reply(): the cases of switch (rpc->type) that go on to build a data
\* reply
HasOutput(rpc_type) == rpc_type \in {"GENERIC", "GETCONFIG", "GET", "GETSCHEMA"}

\* parse_reply(): the type of the reply built from the children of the
\* <rpc-reply>, or "NULL".  rpc_type is the type of the rpc the reply answers;
\* parsed tells whether libyang can parse the output of the rpc.
parse_reply(children, rpc_type, parsed) ==
    IF children = <<>> THEN "NULL"
    ELSE IF children[1] = RpcErrorElem
    THEN IF \E i \in 1..Len(children) : children[i] # RpcErrorElem
         THEN "NULL" ELSE "NC_RPL_ERROR"
    ELSE IF children[1] = OkElem
    THEN IF Len(children) > 1 THEN "NULL" ELSE "NC_RPL_OK"
    ELSE IF HasOutput(rpc_type) /\ parsed
    THEN "NC_RPL_DATA" ELSE "NULL"

\* nc_recv_reply(): what it returns once get_msg() has handed it reply m
RecvReplyResult(m) ==
    IF parse_reply(m.body, "GENERIC", TRUE) = "NULL" THEN "ERROR" ELSE "REPLY"

\* an unlock that does nothing
StillLocked(t) == {ti_lock}

\* pthread_mutex_unlock(session->ti_lock) called by thread t.  Unlocking a
\* default mutex that the caller does not own is undefined: the mutex is
\* either released or left alone.
Unlock(t) ==
    IF ti_lock = t \/ ti_lock = NoThread THEN {NoThread}
    ELSE {NoThread, ti_lock}

\* the arguments of an API call: which of the pointers are given, and whether
\* parseroptions carries bits of LYD_OPT_TYPEMASK
Args == [session : BOOLEAN, rpc : BOOLEAN, out : BOOLEAN, typemask : BOOLEAN]
GoodArgs == [session |-> TRUE, rpc |-> TRUE, out |-> TRUE, typemask |-> FALSE]

\* an argument check that lets every call through
check_args_lax(o, a) == "ok"

\* the checks at the top of nc_send_rpc(), nc_recv_reply(), nc_recv_notif()
\* and nc_recv_notif_dispatch(): what is reported, or "ok"
check_args(o, a) ==
    IF \/ ~a.session
       \/ ~a.out
       \/ o \in {"send_rpc", "recv_reply"} /\ ~a.rpc
       \/ o = "recv_reply" /\ a.typemask
    THEN "ERRARG"
    ELSE IF status # "RUNNING" \/ side # "CLIENT" THEN "invalid session"
    ELSE IF o = "recv_notif_dispatch" /\ ntf_tid THEN "already running"
    ELSE "ok"

\* the rpc types of nc_send_rpc()'s switch
RpcTypes == {"GENERIC", "GETCONFIG", "EDIT", "COPY", "DELETE", "LOCK", "UNLOCK", "GET",
             "KILL", "COMMIT", "DISCARD", "CANCEL", "VALIDATE", "GETSCHEMA", "SUBSCRIBE"}

\* the schemas nc_send_rpc() looks up in session->ctx
Schemas == {"ietf-netconf", "ietf-netconf-monitoring", "notifications",
            "ietf-netconf-with-defaults"}

\* the nodes created below the top-level node of the rpc whose creation is
\* followed by if (!node) return NC_MSG_ERROR
CheckedNodes(type) ==
    CASE type = "GETCONFIG" -> {"source", "filter", "with-defaults"}
      [] type = "EDIT" -> {"target", "default-operation", "test-option", "error-option", "config"}
      [] type = "COPY" -> {"target", "source", "with-defaults"}
      [] type \in {"DELETE", "LOCK", "UNLOCK"} -> {"target"}
      [] type = "GET" -> {"filter", "with-defaults"}
      [] type = "COMMIT" -> {"persist", "persist-id"}
      [] type = "CANCEL" -> {"persist-id"}
      [] type = "VALIDATE" -> {"source"}
      [] type = "GETSCHEMA" -> {"identifier", "version", "format"}
      [] type = "SUBSCRIBE" -> {"stream", "filter", "startTime", "stopTime"}
      [] OTHER -> {}

\* the nodes whose lyd_new_leaf() result is not looked at
UncheckedNodes(type) ==
    CASE type = "KILL" -> {"session-id"}
      [] type = "COMMIT" -> {"confirmed", "confirm-timeout"}
      [] OTHER -> {}

\* an rpc handed to nc_send_rpc() with the context of the session: its
\* type, the schemas loaded in session->ctx, whether a wd_mode is set, the
\* node (if any) that lyd_new*() fails to create, and whether the tree that
\* is built passes lyd_validate(data, LYD_OPT_STRICT)
RpcDescriptors ==
    { d \in [type : RpcTypes, loaded : SUBSET Schemas, wd_mode : BOOLEAN,
             fail : {"none"} \cup UNION {CheckedNodes(y) \cup UncheckedNodes(y) : y \in RpcTypes},
             valid : BOOLEAN] :
        /\ d.fail \in {"none"} \cup CheckedNodes(d.type) \cup UncheckedNodes(d.type)
        /\ d.wd_mode => d.type \in {"GETCONFIG", "COPY", "GET"}
        /\ d.fail = "with-defaults" => d.wd_mode }

BuildResult(r, why, tree) == [r |-> r, why |-> why, data |-> tree]

\* nc_send_rpc() from the lookup of ietf-netconf to lyd_validate(): what it
\* returns before locking, or the tree it goes on with ("partial": a tree
\* that lacks a node the rpc asks for)
build(d) ==
    IF d.type \notin {"GETSCHEMA", "GENERIC", "SUBSCRIBE"} /\ "ietf-netconf" \notin d.loaded
    THEN BuildResult("ERROR", "missing ietf-netconf", "NULL")
    ELSE IF d.type = "GETSCHEMA" /\ "ietf-netconf-monitoring" \notin d.loaded
    THEN BuildResult("ERROR", "missing ietf-netconf-monitoring", "NULL")
    ELSE IF d.type = "SUBSCRIBE" /\ "notifications" \notin d.loaded
    THEN BuildResult("ERROR", "missing notifications", "NULL")
    ELSE IF d.fail \in CheckedNodes(d.type) \ {"with-defaults"}
    THEN BuildResult("ERROR", "node not created", "NULL")
    ELSE IF d.wd_mode /\ "ietf-netconf-with-defaults" \notin d.loaded
    THEN BuildResult("ERROR", "missing ietf-netconf-with-defaults", "NULL")
    ELSE IF d.fail = "with-defaults"
    THEN BuildResult("ERROR", "node not created", "NULL")
    ELSE IF ~d.valid
    THEN BuildResult("ERROR", "validation failed", "NULL")
    ELSE IF d.fail \in UncheckedNodes(d.type)
    THEN BuildResult("OK", "none", "partial")
    ELSE BuildResult("OK", "none", "tree")

\* every outcome of the build
BuildResults == {build(d) : d \in RpcDescriptors}

\* the outcome for an rpc that is built completely
Built == BuildResult("OK", "none", "tree")

\* strings of the capability exchange are sequences of tokens; NoString is
\* the NULL pointer
NoString == <<"(null)">>
BasePrefix == <<"urn:ietf:params:netconf:", "base">>
CapabilityPrefix == <<"urn:ietf:params:netconf:", "capability">>
MonitoringPrefix == <<"urn:ietf:params:xml:ns:yang:", "ietf-netconf-monitoring">>

\* the modules a peer may advertise, and their revisions
ModuleNames == {"acme", "ietf-netconf-monitoring"}
Revisions == {"2021-05-01", "2022-06-02"}
Module(name, rev) == [name |-> name, rev |-> rev]
IetfNetconf == Module(<<"ietf-netconf">>, <<"2011-06-01">>)

\* what a peer advertises: the base capability, a NETCONF capability, a
\* module (with or without revision, the parameters in either order), or a
\* URI without parameters
CapDescs ==
    {[kind |-> "base"], [kind |-> "capability", name |-> "candidate", version |-> ":1.0"],
     [kind |-> "uri"]}
    \cup {[kind |-> "module", name |-> n, rev |-> "none", order |-> "module"] : n \in ModuleNames}
    \cup {[kind |-> "module", name |-> "acme", rev |-> "2021-05-01", order |-> o] :
             o \in {"module", "revision"}}

\* the capability string the peer sends for d
Format(d) ==
    CASE d.kind = "base" -> BasePrefix \o <<":1.0">>
      [] d.kind = "capability" -> CapabilityPrefix \o <<":", d.name, d.version>>
      [] d.kind = "uri" -> <<"http://example.com/", "extension">>
      [] d.kind = "module" ->
            (IF d.name = "ietf-netconf-monitoring" THEN MonitoringPrefix
             ELSE <<"http://example.com/", d.name>>)
            \o <<"?">>
            \o (IF d.rev = "none" THEN <<"module=", d.name>>
                ELSE IF d.order = "module"
                THEN <<"module=", d.name, "&", "revision=", d.rev>>
                ELSE <<"revision=", d.rev, "&", "module=", d.name>>)

\* !strncmp(s, p, strlen(p))
HasPrefix(s, p) == Len(s) >= Len(p) /\ SubSeq(s, 1, Len(p)) = p

\* strstr(s, key): the position of the first key in s, or 0
strstr(s, key) ==
    IF \E j \in 1..Len(s) : s[j] = key
    THEN CHOOSE j \in 1..Len(s) : s[j] = key /\ \A h \in 1..(j - 1) : s[h] # key
    ELSE 0

\* the text after the first key up to the next '&' or the end of the string
\* (strstr, strchr, strndup), NoString when there is no key
ParamValue(s, key) ==
    LET at == strstr(s, key)
        amp == {j \in (at + 1)..Len(s) : s[j] = "&"}
        end == IF amp = {} THEN Len(s)
               ELSE (CHOOSE j \in amp : \A h \in amp : j <= h) - 1
    IN IF at = 0 THEN NoString ELSE SubSeq(s, at + 1, end)

\* a feature test that takes confirmed-commit and validate in any version
FeatureOfAnyVersion(rest) ==
    IF rest = <<>> THEN "none"
    ELSE IF rest[1] \in {"writable-running", "candidate", "confirmed-commit",
                         "rollback-on-error", "validate", "startup", "url", "xpath"}
    THEN rest[1]
    ELSE "none"

\* ctx_check_and_load_ietf_netconf(): the feature enabled for a capability
\* whose text after "urn:ietf:params:netconf:capability:" is rest, or "none";
\* strncmp() looks at the start of rest, strcmp() at all of it
FeatureOf(rest) ==
    IF HasPrefix(rest, <<"writable-running">>) THEN "writable-running"
    ELSE IF HasPrefix(rest, <<"candidate">>) THEN "candidate"
    ELSE IF rest = <<"confirmed-commit", ":1.1">> THEN "confirmed-commit"
    ELSE IF HasPrefix(rest, <<"rollback-on-error">>) THEN "rollback-on-error"
    ELSE IF rest = <<"validate", ":1.1">> THEN "validate"
    ELSE IF HasPrefix(rest, <<"startup">>) THEN "startup"
    ELSE IF HasPrefix(rest, <<"url">>) THEN "url"
    ELSE IF HasPrefix(rest, <<"xpath">>) THEN "xpath"
    ELSE "none"

\* the features the loop over the capabilities enables on ietf-netconf
EnabledFeatures(caps) ==
    LET pre == CapabilityPrefix \o <<":">>
    IN {FeatureOf(SubSeq(caps[k], Len(pre) + 1, Len(caps[k]))) :
           k \in {j \in 1..Len(caps) : HasPrefix(caps[j], pre)}} \ {"none"}

\* a lookup that takes any revision of the module
ly_ctx_get_module_any(c, name, revision) == \E m \in c : m.name = name

\* ly_ctx_get_module(): a module of that name and, if one is asked for, of
\* that revision is in the context
ly_ctx_get_module(c, name, revision) ==
    \E m \in c : m.name = name /\ (revision = NoString \/ m.rev = revision)

\* the module ly_ctx_load_module() adds when it finds the module: the
\* revision asked for, or the newest one
LoadedModule(name, revision) ==
    Module(name, IF revision = NoString THEN <<"2022-06-02">> ELSE revision)

\* ctx_check_and_load_model(): -1 when the capability has no module=, 0
\* when the module is in the context or is loaded now, 1 otherwise
ctx_check_and_load_model(c, cpblt, found) ==
    LET model_name == ParamValue(cpblt, "module=")
        revision == ParamValue(cpblt, "revision=")
    IN IF strstr(cpblt, "module=") = 0 THEN -1
       ELSE IF ly_ctx_get_module(c, model_name, revision) THEN 0
       ELSE IF found /\ Len(model_name) = 1 THEN 0
       ELSE 1

\* the context after ctx_check_and_load_model() returned r
ContextAfter(c, cpblt, r) ==
    LET model_name == ParamValue(cpblt, "module=")
        revision == ParamValue(cpblt, "revision=")
    IN IF r = 0 /\ ~ly_ctx_get_module(c, model_name, revision)
       THEN c \cup {LoadedModule(model_name, revision)}
       ELSE c

\* no parsing function has been called
NoCall == [pc |-> "none"]

\* libyang_module_clb() is not running
NoFetch == [pc |-> "none", msgid |-> 0]

\* no notification thread was created
NoNtf == [pc |-> "none", complete |-> 0, delivered |-> <<>>]

\* nc_ctx_check_and_fill() is not running
LoaderIdle ==
    /\ hello = <<>>
    /\ cpblts = <<>>
    /\ ctx = {}
    /\ clb = "NULL"
    /\ fill = [pc |-> "none", i |-> 0, ret |-> 0, get_schema_support |-> FALSE,
               old_clb |-> "NULL"]
    /\ failed = {}
    /\ features = {}
    /\ fetch = [t \in Threads |-> NoFetch]
    /\ ntf = NoNtf
    /\ call = NoCall

\* a call returns: the values it hands to its caller
Return(t, r, m) ==
    /\ pc' = [pc EXCEPT ![t] = "done"]
    /\ ret' = [ret EXCEPT ![t] = r]
    /\ msg' = [msg EXCEPT ![t] = m]
    /\ cont' = [cont EXCEPT ![t] = NULL]
    /\ xml' = [xml EXCEPT ![t] = NULL]
    /\ log' = log

\* the process is alive, and the caller of a call that has just returned has
\* taken the returned values
Running == ~aborted /\ \A u \in Threads : pc[u] # "done"

----------------------------------------------------------------------------
Init ==
    /\ ti_lock = NoThread
    /\ msgid = 0
    /\ replies = NULL
    /\ notifs = NULL
    /\ next = [m \in Messages \cup BadMessages |-> NULL]
    /\ freed = {}
    /\ aborted = FALSE
    /\ status = "RUNNING"
    /\ side = "CLIENT"
    /\ ntf_tid = FALSE
    /\ wire = <<>>
    /\ answered = {}
    /\ emitted = 0
    /\ junk = 0
    /\ pc = [t \in Threads |-> "idle"]
    /\ op = [t \in Threads |-> "none"]
    /\ want = [t \in Threads |-> 0]
    /\ cont = [t \in Threads |-> NULL]
    /\ xml = [t \in Threads |-> NULL]
    /\ wrote = [t \in Threads |-> 0]
    /\ ret = [t \in Threads |-> "NONE"]
    /\ msg = [t \in Threads |-> NULL]
    /\ out_msgid = [t \in Threads |-> 0]
    /\ before = [t \in Threads |-> <<>>]
    /\ dropped = [t \in Threads |-> NULL]
    /\ log = [t \in Threads |-> "none"]
    /\ data = [t \in Threads |-> "NULL"]
    /\ yielded = {}
    /\ LoaderIdle

----------------------------------------------------------------------------
\* the server answers a request it has received, once
ServerReply(k) ==
    /\ Running
    /\ k \in 1..msgid
    /\ k \notin answered
    /\ answered' = answered \cup {k}
    /\ wire' = Append(wire, Reply(k))
    /\ UNCHANGED <<session, emitted, junk, locals, yielded>>
    /\ UNCHANGED loader

\* the server emits its next notification
ServerNotif ==
    /\ Running
    /\ emitted < MaxNotif
    /\ emitted' = emitted + 1
    /\ wire' = Append(wire, Notif(emitted + 1))
    /\ UNCHANGED <<session, answered, junk, locals, yielded>>
    /\ UNCHANGED loader

\* the server emits a message that a client must not receive; a malformed
\* <rpc-reply> is its answer to a request
ServerBad(m) ==
    /\ Running
    /\ junk < MaxBad
    /\ junk' = junk + 1
    /\ wire' = Append(wire, m)
    /\ IF m \in MalformedReplies
       THEN /\ m.id \in 1..msgid
            /\ m.id \notin answered
            /\ answered' = answered \cup {m.id}
       ELSE answered' = answered
    /\ UNCHANGED <<session, emitted, locals, yielded>>
    /\ UNCHANGED loader

----------------------------------------------------------------------------
\* nc_send_rpc(): nc_timedlock() succeeded
SendRpcLock(t, b) ==
    /\ Running
    /\ pc[t] = "idle"
    /\ check_args("send_rpc", GoodArgs) = "ok"
    /\ b.r = "OK"
    /\ data' = [data EXCEPT ![t] = b.data]
    /\ msgid + Cardinality({u \in Threads : pc[u] = "send_msg"}) < MaxSend
    /\ ti_lock = NoThread
    /\ ti_lock' = t
    /\ pc' = [pc EXCEPT ![t] = "send_msg"]
    /\ op' = [op EXCEPT ![t] = "send_rpc"]
    /\ want' = [want EXCEPT ![t] = 0]
    /\ ret' = [ret EXCEPT ![t] = "NONE"]
    /\ msg' = [msg EXCEPT ![t] = NULL]
    /\ wrote' = [wrote EXCEPT ![t] = 0]
    /\ out_msgid' = [out_msgid EXCEPT ![t] = 0]
    /\ UNCHANGED <<msgid, replies, notifs, next, freed, aborted, status, side, ntf_tid, server, cont, xml, before, dropped, log, yielded>>
    /\ UNCHANGED loader

\* nc_send_rpc(): nc_timedlock() timed out (the mutex is locked by another
\* thread) or failed; the mutex is unlocked all the same and r is returned
SendRpcLockFail(t, b) ==
    /\ Running
    /\ pc[t] = "idle"
    /\ check_args("send_rpc", GoodArgs) = "ok"
    /\ b.r = "OK"
    /\ data' = [data EXCEPT ![t] = b.data]
    /\ \E r \in {"WOULDBLOCK", "ERROR"} :
        /\ r = "WOULDBLOCK" => ti_lock \notin {NoThread, t}
        /\ ti_lock' \in Unlock(t)
        /\ Return(t, r, NULL)
    /\ op' = [op EXCEPT ![t] = "send_rpc"]
    /\ want' = [want EXCEPT ![t] = 0]
    /\ wrote' = [wrote EXCEPT ![t] = 0]
    /\ out_msgid' = [out_msgid EXCEPT ![t] = 0]
    /\ UNCHANGED <<msgid, replies, notifs, next, freed, aborted, status, side, ntf_tid, server, before, dropped, yielded>>
    /\ UNCHANGED loader

\* nc_send_msg(): the rpc goes out with the next message-id
SendMsg(t) ==
    /\ Running
    /\ pc[t] = "send_msg"
    /\ msgid' = msgid + 1
    /\ wrote' = [wrote EXCEPT ![t] = msgid + 1]
    /\ pc' = [pc EXCEPT ![t] = "send_read"]
    /\ UNCHANGED <<ti_lock, replies, notifs, next, freed, aborted, status, side, ntf_tid, server,
                   op, want, cont, xml, ret, msg, out_msgid, before, dropped, log, data, yielded>>
    /\ UNCHANGED loader

\* nc_send_rpc(): cur_msgid = session->msgid, unlock, *msgid = cur_msgid
SendRpcReturn(t) ==
    /\ Running
    /\ pc[t] = "send_read"
    /\ ti_lock' \in Unlock(t)
    /\ out_msgid' = [out_msgid EXCEPT ![t] = msgid]
    /\ Return(t, "RPC", NULL)
    /\ UNCHANGED <<msgid, replies, notifs, next, freed, aborted, status, side, ntf_tid, server,
                   op, want, wrote, before, dropped, yielded, data>>
    /\ UNCHANGED loader

----------------------------------------------------------------------------
\* get_msg(): nc_timedlock() succeeded; the queue the caller is interested
\* in is looked at
GetMsgLock(t, o, k) ==
    /\ Running
    /\ pc[t] = "idle"
    /\ check_args(o, GoodArgs) = "ok"
    /\ ti_lock = NoThread
    /\ ti_lock' = t
    /\ op' = [op EXCEPT ![t] = o]
    /\ want' = [want EXCEPT ![t] = k]
    /\ ret' = [ret EXCEPT ![t] = "NONE"]
    /\ msg' = [msg EXCEPT ![t] = NULL]
    /\ before' = [before EXCEPT ![t] = <<ListFrom(replies), ListFrom(notifs)>>]
    /\ IF k = 0 /\ notifs # NULL
       THEN /\ cont' = [cont EXCEPT ![t] = notifs]
            /\ pc' = [pc EXCEPT ![t] = "notif_pop"]
       ELSE IF k # 0 /\ replies # NULL
       THEN /\ cont' = [cont EXCEPT ![t] = replies]
            /\ pc' = [pc EXCEPT ![t] = "reply_pop"]
       ELSE /\ cont' = cont
            /\ pc' = [pc EXCEPT ![t] = "read"]
    /\ UNCHANGED <<msgid, replies, notifs, next, freed, aborted, status, side, ntf_tid, server,
                   xml, wrote, out_msgid, dropped, log, data, yielded>>
    /\ UNCHANGED loader

\* get_msg(): nc_timedlock() timed out or failed
GetMsgLockFail(t, o, k) ==
    /\ Running
    /\ pc[t] = "idle"
    /\ check_args(o, GoodArgs) = "ok"
    /\ \E r \in {"WOULDBLOCK", "ERROR"} :
        /\ r = "WOULDBLOCK" => ti_lock \notin {NoThread, t}
        /\ Return(t, r, NULL)
    /\ op' = [op EXCEPT ![t] = o]
    /\ want' = [want EXCEPT ![t] = k]
    /\ UNCHANGED <<session, server, wrote, out_msgid, before, dropped, yielded, data>>
    /\ UNCHANGED loader

\* get_msg(): the head of the notification queue is taken out and returned
NotifPop(t) ==
    /\ Running
    /\ pc[t] = "notif_pop"
    /\ \E outcome \in (IF cont[t] \in freed THEN {"stale", "abort"} ELSE {"valid"}) :
        IF outcome = "abort"
        THEN /\ aborted' = TRUE
             /\ UNCHANGED <<ti_lock, msgid, replies, notifs, next, freed, status, side, ntf_tid,
                            server, locals, yielded>>
        ELSE /\ notifs' = Unlink(cont[t])
             /\ ti_lock' \in Unlock(t)
             /\ freed' = freed \cup {cont[t]}
             /\ Return(t, "NOTIF", cont[t])
             /\ UNCHANGED <<msgid, replies, next, aborted, status, side, ntf_tid, server, op, want,
                            wrote, out_msgid, before, dropped, yielded, data>>
    /\ UNCHANGED loader

\* get_msg(): one round of the scan of the reply queue
ReplyPop(t) ==
    /\ Running
    /\ pc[t] = "reply_pop"
    /\ \E outcome \in (IF cont[t] \in freed THEN {"stale", "abort"} ELSE {"valid"}) :
        IF outcome = "abort"
        THEN /\ aborted' = TRUE
             /\ UNCHANGED <<ti_lock, msgid, replies, notifs, next, freed, status, side, ntf_tid,
                            server, locals, yielded>>
        ELSE /\ replies' = Unlink(cont[t])
             /\ freed' = freed \cup {cont[t]}
             /\ IF cont[t].id = want[t]
                THEN /\ ti_lock' \in Unlock(t)
                     /\ IF RecvReplyResult(cont[t]) = "REPLY"
                        THEN /\ Return(t, "REPLY", cont[t])
                             /\ yielded' = yielded \cup {want[t]}
                             /\ UNCHANGED dropped
                        ELSE /\ Return(t, "ERROR", NULL)
                             /\ dropped' = [dropped EXCEPT ![t] = cont[t]]
                             /\ UNCHANGED yielded
                ELSE /\ ti_lock' = ti_lock
                     /\ cont' = [cont EXCEPT ![t] = replies']
                     /\ pc' = [pc EXCEPT ![t] =
                                 IF replies' # NULL THEN "reply_pop" ELSE "read"]
                     /\ UNCHANGED <<xml, ret, msg, yielded, dropped, log, data>>
             /\ UNCHANGED <<msgid, notifs, next, aborted, status, side, ntf_tid, server, op, want,
                            wrote, out_msgid, before, data>>
    /\ UNCHANGED loader

\* nc_read_msg_poll(): one message is read from the transport, or the read
\* times out and get_msg() returns
ReadMsg(t) ==
    /\ Running
    /\ pc[t] = "read"
    /\ IF wire # <<>>
       THEN /\ xml' = [xml EXCEPT ![t] = Head(wire)]
            /\ wire' = Tail(wire)
            /\ pc' = [pc EXCEPT ![t] = "park"]
            /\ UNCHANGED <<ti_lock, cont, ret, msg, log, data>>
       ELSE /\ ti_lock' \in Unlock(t)
            /\ Return(t, "WOULDBLOCK", NULL)
            /\ wire' = wire
    /\ UNCHANGED <<msgid, replies, notifs, next, freed, aborted, status, side, ntf_tid, answered,
                   emitted, junk, op, want, wrote, out_msgid, before, dropped, yielded, data>>
    /\ UNCHANGED loader

\* get_msg(): what is done with the message that was read.  An <rpc-reply>
\* without message-id read by a call that wants a notification is dropped:
\* unlock, Error.  A message of the other kind is put at the tail of its
\* queue.  Unlock.  The type of the message is returned, with the message
\* itself only if it is of the wanted kind; a <hello> or an <rpc> is dropped
\* and Error is returned.  nc_recv_reply() hands xml to parse_reply() whenever
\* get_msg() returns NC_MSG_REPLY: after a call with msgid 0 that parked the
\* reply, xml was never set, and reading it is undefined (the process dies,
\* or parse_reply() rejects or accepts what it finds there).
Park(t) ==
    /\ Running
    /\ pc[t] = "park"
    /\ LET m == xml[t] IN
        /\ IF want[t] = 0 /\ m.type = "reply" /\ HasMessageId(m)
           THEN /\ replies' = AppendHead(replies, m)
                /\ next' = AppendNext(replies, m)
                /\ notifs' = notifs
           ELSE IF want[t] # 0 /\ m.type = "notif"
           THEN /\ notifs' = AppendHead(notifs, m)
                /\ next' = AppendNext(notifs, m)
                /\ replies' = replies
           ELSE UNCHANGED <<replies, notifs, next>>
        /\ ti_lock' \in Unlock(t)
        /\ IF \/ m.type \in {"hello", "rpc"}
              \/ want[t] = 0 /\ m.type = "reply" /\ ~HasMessageId(m)
           THEN /\ Return(t, "ERROR", NULL)
                /\ dropped' = [dropped EXCEPT ![t] = m]
                /\ UNCHANGED <<aborted, yielded>>
           ELSE IF m.type = "notif"
           THEN /\ Return(t, "NOTIF", IF want[t] = 0 THEN m ELSE NULL)
                /\ UNCHANGED <<aborted, yielded, dropped>>
           ELSE IF want[t] # 0 /\ RecvReplyResult(m) = "REPLY"
           THEN /\ Return(t, "REPLY", m)
                /\ yielded' = yielded \cup {m.id}
                /\ UNCHANGED <<aborted, dropped>>
           ELSE IF want[t] # 0
           THEN /\ Return(t, "ERROR", NULL)
                /\ dropped' = [dropped EXCEPT ![t] = m]
                /\ UNCHANGED <<aborted, yielded>>
           ELSE IF op[t] = "recv_notif"
           THEN /\ Return(t, "REPLY", NULL)
                /\ UNCHANGED <<aborted, yielded, dropped>>
           ELSE \E outcome \in {"abort", "ERROR", "REPLY"} :
                /\ aborted' = (outcome = "abort")
                /\ Return(t, IF outcome = "abort" THEN "NONE" ELSE outcome, NULL)
                /\ UNCHANGED <<yielded, dropped>>
    /\ UNCHANGED <<msgid, freed, status, side, ntf_tid, server, op, want, wrote, out_msgid, before, data>>
    /\ UNCHANGED loader

\* nc_send_rpc() that passes the checks on its arguments and fails to build
\* the rpc: it returns NC_MSG_ERROR from where the build fails
BuildError(t, b) ==
    /\ Running
    /\ pc[t] = "idle"
    /\ check_args("send_rpc", GoodArgs) = "ok"
    /\ b.r = "ERROR"
    /\ pc' = [pc EXCEPT ![t] = "done"]
    /\ op' = [op EXCEPT ![t] = "send_rpc"]
    /\ ret' = [ret EXCEPT ![t] = "ERROR"]
    /\ log' = [log EXCEPT ![t] = b.why]
    /\ UNCHANGED <<session, server, want, cont, xml, wrote, msg, out_msgid,
                   before, dropped, data, yielded>>
    /\ UNCHANGED loader

\* an API call that does not pass the checks on its arguments and on the
\* session: it reports why and returns NC_MSG_ERROR (nc_recv_notif_dispatch:
\* -1)
ArgError(t, o, a) ==
    /\ Running
    /\ pc[t] = "idle"
    /\ check_args(o, a) # "ok"
    /\ pc' = [pc EXCEPT ![t] = "done"]
    /\ op' = [op EXCEPT ![t] = o]
    /\ ret' = [ret EXCEPT ![t] = IF o = "recv_notif_dispatch" THEN "-1" ELSE "ERROR"]
    /\ log' = [log EXCEPT ![t] = check_args(o, a)]
    /\ UNCHANGED <<session, server, want, cont, xml, wrote, msg, out_msgid,
                   before, dropped, data, yielded>>
    /\ UNCHANGED loader

\* nc_recv_notif_dispatch() that passes the checks: session->ntf_tid is set
\* and the notification thread is created, or pthread_create() fails and
\* session->ntf_tid is cleared again
NotifDispatch(t) ==
    /\ Running
    /\ pc[t] = "idle"
    /\ check_args("recv_notif_dispatch", GoodArgs) = "ok"
    /\ \E created \in BOOLEAN :
        /\ ntf_tid' = created
        /\ ret' = [ret EXCEPT ![t] = IF created THEN "0" ELSE "-1"]
    /\ pc' = [pc EXCEPT ![t] = "done"]
    /\ op' = [op EXCEPT ![t] = "recv_notif_dispatch"]
    /\ UNCHANGED <<ti_lock, msgid, replies, notifs, next, freed, aborted, status,
                   side, server, want, cont, xml, wrote, msg, out_msgid, before,
                   dropped, log, data, yielded>>

\* nc_recv_notif_dispatch() seen by its caller
nc_recv_notif_dispatch(t) ==
    /\ NotifDispatch(t)
    /\ UNCHANGED loader

\* the caller takes the values the call returned
Taken(t) ==
    /\ pc[t] = "done"
    /\ pc' = [pc EXCEPT ![t] = "idle"]
    /\ op' = [op EXCEPT ![t] = "none"]
    /\ want' = [want EXCEPT ![t] = 0]
    /\ wrote' = [wrote EXCEPT ![t] = 0]
    /\ ret' = [ret EXCEPT ![t] = "NONE"]
    /\ msg' = [msg EXCEPT ![t] = NULL]
    /\ out_msgid' = [out_msgid EXCEPT ![t] = 0]
    /\ before' = [before EXCEPT ![t] = <<>>]
    /\ dropped' = [dropped EXCEPT ![t] = NULL]
    /\ log' = [log EXCEPT ![t] = "none"]
    /\ data' = [data EXCEPT ![t] = "NULL"]
    /\ UNCHANGED <<session, server, cont, xml, yielded>>
    /\ UNCHANGED loader

----------------------------------------------------------------------------
\* nc_send_rpc() for an rpc whose build has one of the outcomes B
send_rpc(t, B) ==
    \/ \E b \in B : SendRpcLock(t, b)
    \/ \E b \in B : SendRpcLockFail(t, b)
    \/ SendMsg(t)
    \/ SendRpcReturn(t)

\* nc_send_rpc() for an rpc that is built completely
nc_send_rpc(t) == send_rpc(t, {Built})

get_msg(t) ==
    \/ NotifPop(t)
    \/ ReplyPop(t)
    \/ ReadMsg(t)
    \/ Park(t)

nc_recv_reply(t) ==
    \E k \in 0..msgid :
        \/ GetMsgLock(t, "recv_reply", k)
        \/ GetMsgLockFail(t, "recv_reply", k)

nc_recv_notif(t) ==
    \/ GetMsgLock(t, "recv_notif", 0)
    \/ GetMsgLockFail(t, "recv_notif", 0)

Next ==
    \/ \E k \in 1..MaxSend : ServerReply(k)
    \/ ServerNotif
    \/ \E t \in Threads : nc_send_rpc(t)
    \/ \E t \in Threads : nc_recv_notif(t)
    \/ \E t \in Threads : nc_recv_reply(t)
    \/ \E t \in Threads : get_msg(t)
    \/ \E t \in Threads : Taken(t)

Spec == Init /\ [][Next]_vars

\* the session with a server that breaks the protocol and sends no
\* notifications
NextProto ==
    \/ \E k \in 1..MaxSend : ServerReply(k)
    \/ \E m \in BadMessages : ServerBad(m)
    \/ \E t \in Threads : nc_send_rpc(t)
    \/ \E t \in Threads : nc_recv_notif(t)
    \/ \E t \in Threads : nc_recv_reply(t)
    \/ \E t \in Threads : ReplyPop(t) \/ ReadMsg(t) \/ Park(t)
    \/ \E t \in Threads : Taken(t)

SpecProto == Init /\ [][NextProto]_vars

\* the session whose callers send rpcs of every type, with any schemas
\* loaded and any failure of the build; the server sends replies only
NextBuild ==
    \/ \E k \in 1..MaxSend : ServerReply(k)
    \/ \E t \in Threads : \E b \in BuildResults : BuildError(t, b)
    \/ \E t \in Threads : send_rpc(t, BuildResults)
    \/ \E t \in Threads : nc_recv_reply(t)
    \/ \E t \in Threads : ReplyPop(t) \/ ReadMsg(t) \/ Park(t)
    \/ \E t \in Threads : Taken(t)

SpecBuild == Init /\ [][NextBuild]_vars

----------------------------------------------------------------------------
\* the server answers a request with <data>, once
ServerData(k) ==
    /\ Running
    /\ k \in 1..msgid
    /\ k \notin answered
    /\ answered' = answered \cup {k}
    /\ wire' = Append(wire, DataReply(k))
    /\ UNCHANGED <<session, emitted, junk, locals, yielded>>
    /\ UNCHANGED loader

\* the caller of an API function takes the values it returned
TakeReturn(t) ==
    /\ pc' = [pc EXCEPT ![t] = "idle"]
    /\ op' = [op EXCEPT ![t] = "none"]
    /\ want' = [want EXCEPT ![t] = 0]
    /\ wrote' = [wrote EXCEPT ![t] = 0]
    /\ ret' = [ret EXCEPT ![t] = "NONE"]
    /\ msg' = [msg EXCEPT ![t] = NULL]
    /\ out_msgid' = [out_msgid EXCEPT ![t] = 0]
    /\ before' = [before EXCEPT ![t] = <<>>]
    /\ dropped' = [dropped EXCEPT ![t] = NULL]
    /\ log' = [log EXCEPT ![t] = "none"]
    /\ data' = [data EXCEPT ![t] = "NULL"]
    /\ UNCHANGED <<cont, xml>>

\* libyang_module_clb() is called by the schema library on thread t
ClbStart(t) ==
    /\ Running
    /\ pc[t] = "idle"
    /\ fetch[t].pc \in {"none", "null", "model"}
    /\ msgid + Cardinality({u \in Threads : fetch[u].pc = "send"}) < MaxSend
    /\ fetch' = [fetch EXCEPT ![t] = [pc |-> "send", msgid |-> 0]]
    /\ UNCHANGED <<session, server, locals, yielded, hello, cpblts, ctx, clb, fill,
                   failed, features, ntf, call>>

\* libyang_module_clb(): nc_send_rpc(session, rpc, 0, &msgid) has returned;
\* it is called again on NC_MSG_WOULDBLOCK, NULL is returned on NC_MSG_ERROR
ClbSent(t) ==
    /\ pc[t] = "done" /\ op[t] = "send_rpc"
    /\ fetch[t].pc = "send"
    /\ fetch' = [fetch EXCEPT ![t] =
                   IF ret[t] = "WOULDBLOCK" THEN @
                   ELSE IF ret[t] = "ERROR" THEN [pc |-> "null", msgid |-> 0]
                   ELSE [pc |-> "recv", msgid |-> out_msgid[t]]]
    /\ TakeReturn(t)
    /\ UNCHANGED <<session, server, yielded, hello, cpblts, ctx, clb, fill, failed, features, ntf, call>>

\* libyang_module_clb(): nc_recv_reply(session, rpc, msgid, 250, 0, &reply)
\* has returned; NULL is returned on NC_MSG_WOULDBLOCK and NC_MSG_ERROR,
\* after that reply->type is read.  When no reply was produced reply is NULL
\* and the read is undefined: the process dies, or the callback goes on
\* either way.
ClbReceived(t) ==
    /\ pc[t] = "done" /\ op[t] = "recv_reply"
    /\ fetch[t].pc = "recv"
    /\ \E o \in {"crash", "null", "model"} :
        /\ ret[t] \in {"WOULDBLOCK", "ERROR"} => o = "null"
        /\ ret[t] \notin {"WOULDBLOCK", "ERROR"} /\ msg[t] # NULL =>
              o = IF parse_reply(msg[t].body, "GETSCHEMA", TRUE) = "NC_RPL_DATA"
                  THEN "model" ELSE "null"
        /\ fetch' = [fetch EXCEPT ![t] = [pc |-> o, msgid |-> 0]]
        /\ aborted' = (aborted \/ o = "crash")
    /\ TakeReturn(t)
    /\ UNCHANGED <<ti_lock, msgid, replies, notifs, next, freed, status, side, ntf_tid,
                   server, yielded, hello, cpblts, ctx, clb, fill, failed, features, ntf, call>>

\* libyang_module_clb() on thread t
libyang_module_clb(t) ==
    \/ ClbStart(t)
    \/ fetch[t].pc = "send" /\ nc_send_rpc(t)
    \/ ClbSent(t)
    \/ /\ fetch[t].pc = "recv"
       /\ \/ GetMsgLock(t, "recv_reply", fetch[t].msgid)
          \/ GetMsgLockFail(t, "recv_reply", fetch[t].msgid)
    \/ ClbReceived(t)

\* the session on which the schema library fetches modules through
\* libyang_module_clb() from several threads, while the server answers with
\* <ok> or <data> and emits notifications
NextClb ==
    \/ \E k \in 1..MaxSend : ServerReply(k)
    \/ \E k \in 1..MaxSend : ServerData(k)
    \/ ServerNotif
    \/ \E t \in Threads : libyang_module_clb(t)
    \/ \E t \in Threads : ReadMsg(t) \/ Park(t)

SpecClb == Init /\ [][NextClb]_vars

----------------------------------------------------------------------------
\* the thread nc_recv_notif_thread() runs on; the other threads are the
\* callers of the API
NtfThread == NumThreads
Callers == Threads \ {NtfThread}

\* nc_recv_notif_dispatch() with the thread it creates, once in the life of
\* the session: the thread starts at the test of its loop.  complete is the number of the notification that is
\* the notificationComplete of nc-notifications in this subscription
\* (MaxNotif + 1: the server emits none).
DispatchCreate(t) ==
    /\ ntf.pc = "none"
    /\ NotifDispatch(t)
    /\ \E c \in 1..(MaxNotif + 1) :
          ntf' = IF ntf_tid' THEN [pc |-> "loop", complete |-> c, delivered |-> <<>>]
                 ELSE ntf
    /\ UNCHANGED <<hello, cpblts, ctx, clb, fill, failed, features, fetch, call>>

\* the session is closed: session->ntf_tid is cleared
ClearNtfTid ==
    /\ Running
    /\ ntf_tid
    /\ ntf_tid' = FALSE
    /\ UNCHANGED <<ti_lock, msgid, replies, notifs, next, freed, aborted, status, side,
                   server, locals, yielded, loader>>

\* nc_recv_notif_thread(): while (session->ntf_tid)
NtfLoop ==
    /\ Running
    /\ ntf.pc = "loop"
    /\ ntf' = [ntf EXCEPT !.pc = IF ntf_tid THEN "poll" ELSE "exited"]
    /\ UNCHANGED <<session, server, locals, yielded, hello, cpblts, ctx, clb, fill, failed,
                   features, fetch, call>>

\* nc_recv_notif_thread(): nc_recv_notif(session, 0, &notif)
NtfPoll ==
    /\ ntf.pc = "poll"
    /\ nc_recv_notif(NtfThread) \/ get_msg(NtfThread)

\* nc_recv_notif_thread(): notif_clb(session, notif)
Callback(delivered, m) == Append(delivered, m.id)

\* nc_recv_notif_thread(): nc_recv_notif() has returned.  On NC_MSG_NOTIF
\* the callback is called, and the loop is left after a
\* notificationComplete; otherwise usleep() and the test of the loop.
NtfReturned ==
    /\ ntf.pc = "poll"
    /\ pc[NtfThread] = "done"
    /\ IF ret[NtfThread] = "NOTIF"
       THEN ntf' = [ntf EXCEPT !.delivered = Callback(@, msg[NtfThread]),
                               !.pc = IF msg[NtfThread].id = ntf.complete
                                      THEN "exited" ELSE "loop"]
       ELSE ntf' = [ntf EXCEPT !.pc = "loop"]
    /\ TakeReturn(NtfThread)
    /\ UNCHANGED <<session, server, yielded, hello, cpblts, ctx, clb, fill, failed,
                   features, fetch, call>>

nc_recv_notif_thread == NtfLoop \/ NtfPoll \/ NtfReturned

\* the session with a notification thread: the callers start it, send rpcs,
\* receive replies and close the session, the server answers and emits
\* notifications
NextNtf ==
    \/ \E k \in 1..MaxSend : ServerReply(k)
    \/ ServerNotif
    \/ \E t \in Callers : DispatchCreate(t)
    \/ ClearNtfTid
    \/ \E t \in Callers : nc_send_rpc(t)
    \/ \E t \in Callers : nc_recv_reply(t)
    \/ \E t \in Callers : get_msg(t)
    \/ \E t \in Callers : Taken(t)
    \/ nc_recv_notif_thread

\* the notification thread is scheduled again and again
SpecNtf == Init /\ [][NextNtf]_vars /\ WF_vars(nc_recv_notif_thread)

----------------------------------------------------------------------------
\* the longest <rpc-reply>, in children
MaxChildren == 3

\* the children an <rpc-reply> may have: <ok> and <rpc-error> in the base
\* namespace and in another one, and the output of an rpc
ReplyElems == {OkElem, RpcErrorElem, Elem("ok", "other"), Elem("rpc-error", "other"), DataElem}

\* a Running session on which nothing is going on, for the calls of the
\* parsing functions
SessionAtRest ==
    /\ ti_lock = NoThread
    /\ msgid = 0
    /\ replies = NULL
    /\ notifs = NULL
    /\ next = [m \in Messages \cup BadMessages |-> NULL]
    /\ freed = {}
    /\ aborted = FALSE
    /\ status = "RUNNING"
    /\ side = "CLIENT"
    /\ ntf_tid = FALSE
    /\ wire = <<>>
    /\ answered = {}
    /\ emitted = 0
    /\ junk = 0
    /\ pc = [t \in Threads |-> "idle"]
    /\ op = [t \in Threads |-> "none"]
    /\ want = [t \in Threads |-> 0]
    /\ cont = [t \in Threads |-> NULL]
    /\ xml = [t \in Threads |-> NULL]
    /\ wrote = [t \in Threads |-> 0]
    /\ ret = [t \in Threads |-> "NONE"]
    /\ msg = [t \in Threads |-> NULL]
    /\ out_msgid = [t \in Threads |-> 0]
    /\ before = [t \in Threads |-> <<>>]
    /\ dropped = [t \in Threads |-> NULL]
    /\ log = [t \in Threads |-> "none"]
    /\ data = [t \in Threads |-> "NULL"]
    /\ yielded = {}
    /\ hello = <<>>
    /\ cpblts = <<>>
    /\ ctx = {}
    /\ clb = "NULL"
    /\ fill = [pc |-> "none", i |-> 0, ret |-> 0, get_schema_support |-> FALSE,
               old_clb |-> "NULL"]
    /\ failed = {}
    /\ features = {}
    /\ fetch = [t \in Threads |-> NoFetch]
    /\ ntf = NoNtf

\* a call of nc_recv_reply() for which get_msg() has just returned
\* NC_MSG_REPLY with xml: the children of the <rpc-reply>, the type of the rpc
\* it answers, and whether libyang can parse the output
InitReply ==
    /\ SessionAtRest
    /\ \E n \in 0..MaxChildren : \E children \in [1..n -> ReplyElems] :
       \E rpc_type \in RpcTypes : \E parsed \in BOOLEAN :
          call = [pc |-> "parse_reply", children |-> children, rpc_type |-> rpc_type,
                  parsed |-> parsed]

\* nc_recv_reply() once get_msg() has returned NC_MSG_REPLY: *reply =
\* parse_reply(...), NC_MSG_ERROR if that is NULL, NC_MSG_REPLY otherwise.
\* count is error_rpl->count.
RecvReplyParse ==
    /\ call.pc = "parse_reply"
    /\ LET reply == parse_reply(call.children, call.rpc_type, call.parsed)
       IN call' = [pc |-> "returned", children |-> call.children,
                   rpc_type |-> call.rpc_type, parsed |-> call.parsed,
                   reply |-> reply,
                   count |-> IF reply = "NC_RPL_ERROR" THEN Len(call.children) ELSE 0,
                   msgtype |-> IF reply = "NULL" THEN "ERROR" ELSE "REPLY"]
    /\ UNCHANGED <<session, server, locals, yielded, hello, cpblts, ctx, clb, fill, failed,
                   features, fetch, ntf>>

SpecReply == InitReply /\ [][RecvReplyParse]_vars

----------------------------------------------------------------------------
\* the longest <rpc-error>, in children
MaxErrChildren == 3

\* a NULL content, and a field of struct nc_err that is not set
NoContent == "(null)"

\* an element below <rpc-error>; info holds the children of <error-info>
ErrElem(name, ns, content, info) == [name |-> name, ns |-> ns, content |-> content, info |-> info]
Leaf(name, content) == ErrElem(name, "base", content, <<>>)

\* the values parse_rpc_error() compares the content with
ErrorTypes == {"transport", "rpc", "protocol", "application"}
ErrorTags == {"in-use", "invalid-value", "too-big", "missing-attribute", "bad-attribute",
              "unknown-attribute", "missing-element", "bad-element", "unknown-element",
              "unknown-namespace", "access-denied", "lock-denied", "resource-denied",
              "rollback-failed", "data-exists", "data-missing", "operation-not-supported",
              "operation-failed", "malformed-message"}
ErrorSeverities == {"error", "warning"}

\* the children an <rpc-error> may have
ErrElems ==
    {Leaf("error-type", c) : c \in {"rpc", "application", "bogus", NoContent}}
    \cup {Leaf("error-tag", c) : c \in {"in-use", "malformed-message", "bogus"}}
    \cup {Leaf("error-severity", c) : c \in {"error", "warning", "bogus"}}
    \cup {Leaf("error-app-tag", c) : c \in {"a", NoContent}}
    \cup {Leaf("error-path", c) : c \in {"a", "b"}}
    \cup {Leaf("error-message", c) : c \in {"a", "b"}}
    \cup {ErrElem("error-info", "base", NoContent, i) :
             i \in {<<Leaf("session-id", "a")>>,
                    <<Leaf("session-id", "a"), Leaf("session-id", "b")>>,
                    <<ErrElem("session-id", "other", "a", <<>>), Leaf("session-id", "b")>>}}
    \cup {Leaf("foo", "a"), ErrElem("error-type", "other", "rpc", <<>>),
          ErrElem("error-tag", "none", "in-use", <<>>)}

\* the field of struct nc_err an element is stored in
FieldOf(name) ==
    CASE name = "error-type" -> "type"
      [] name = "error-tag" -> "tag"
      [] name = "error-severity" -> "severity"
      [] name = "error-app-tag" -> "apptag"
      [] name = "error-path" -> "path"
      [] name = "error-message" -> "message"
      [] name = "session-id" -> "sid"
      [] OTHER -> "none"
ErrFields == {"type", "tag", "severity", "apptag", "path", "message", "sid"}

\* a test of the content that takes every value
AcceptedAny(name, content) == TRUE

\* the test of the content of <error-type>, <error-tag> and <error-severity>;
\* the other fields take any content
Accepted(name, content) ==
    CASE name = "error-type" -> content \in ErrorTypes
      [] name = "error-tag" -> content \in ErrorTags
      [] name = "error-severity" -> content \in ErrorSeverities
      [] OTHER -> TRUE

\* a store that does not look at the field
Overwrite(old, content) == IF content = NoContent THEN "" ELSE content

\* "else if (err->x) WRN(duplicated) else err->x = lydict_insert(ctx,
\* content ? content : "", 0)"
Keep(old, content) ==
    IF old # NoContent THEN old
    ELSE IF content = NoContent THEN "" ELSE content

\* the loop over the children of <error-info>: err->sid afterwards
RECURSIVE SidAfter(_, _)
SidAfter(sid, info) ==
    IF info = <<>> THEN sid
    ELSE SidAfter(IF info[1].ns = "base" /\ info[1].name = "session-id"
                  THEN Keep(sid, info[1].content) ELSE sid,
                  Tail(info))

\* parse_rpc_error(): one turn of the loop over the children of <rpc-error>
ErrAfter(err, e) ==
    IF e.ns # "base" THEN err
    ELSE IF e.name \in {"error-type", "error-tag", "error-severity"}
    THEN IF Accepted(e.name, e.content)
         THEN [err EXCEPT ![FieldOf(e.name)] = Keep(@, e.content)]
         ELSE err
    ELSE IF e.name \in {"error-app-tag", "error-path", "error-message"}
    THEN [err EXCEPT ![FieldOf(e.name)] = Keep(@, e.content)]
    ELSE IF e.name = "error-info"
    THEN [err EXCEPT !.sid = SidAfter(@, e.info)]
    ELSE err

\* parse_reply() calls parse_rpc_error() on an <rpc-error> with a zeroed
\* struct nc_err (calloc)
InitErr ==
    /\ SessionAtRest
    /\ \E n \in 1..MaxErrChildren : \E children \in [1..n -> ErrElems] :
          call = [pc |-> "parse_rpc_error", children |-> children, i |-> 1,
                  err |-> [f \in ErrFields |-> NoContent]]

\* parse_rpc_error(): the next child is looked at, or the loop ends
parse_rpc_error ==
    /\ call.pc = "parse_rpc_error"
    /\ IF call.i <= Len(call.children)
       THEN call' = [call EXCEPT !.i = @ + 1,
                                 !.err = ErrAfter(@, call.children[call.i])]
       ELSE call' = [call EXCEPT !.pc = "returned"]
    /\ UNCHANGED <<session, server, locals, yielded, hello, cpblts, ctx, clb, fill, failed,
                   features, fetch, ntf>>

SpecErr == InitErr /\ [][parse_rpc_error]_vars

----------------------------------------------------------------------------
\* the longest timeout of a call, in milliseconds
MaxTimeout == 6

\* a call of get_msg(session, timeout, ...) at nc_timedlock(): its timeout
\* argument, and what nc_timedlock() is going to return in r and to report in
\* elapsed (get_msg() sets elapsed to 0 and nc_timedlock(), with a positive
\* timeout, adds the milliseconds it measured)
InitTimeout ==
    /\ SessionAtRest
    /\ \E timeout \in -2..MaxTimeout : \E r \in {-1, 0, 1} :
       \E elapsed \in (IF timeout > 0 THEN 0..(MaxTimeout + 1) ELSE {0}) :
          call = [pc |-> "nc_timedlock", timeout |-> timeout, r |-> r, elapsed |-> elapsed]

\* get_msg(): "if (timeout > 0) timeout -= elapsed"
RemainingTimeout(timeout, elapsed) ==
    IF timeout > 0 THEN timeout - elapsed ELSE timeout

\* get_msg() from nc_timedlock() to nc_read_msg_poll(session, timeout, &xml),
\* the queues being empty: it returns on -1 and 0, otherwise read_timeout is
\* the timeout the read is called with
GetMsgTimeout ==
    /\ call.pc = "nc_timedlock"
    /\ call' = IF call.r = -1 THEN [call EXCEPT !.pc = "returned NC_MSG_ERROR"]
               ELSE IF call.r = 0 THEN [call EXCEPT !.pc = "returned NC_MSG_WOULDBLOCK"]
               ELSE [pc |-> "nc_read_msg_poll", timeout |-> call.timeout, r |-> call.r,
                     elapsed |-> call.elapsed,
                     read_timeout |-> RemainingTimeout(call.timeout, call.elapsed)]
    /\ UNCHANGED <<session, server, locals, yielded, hello, cpblts, ctx, clb, fill, failed,
                   features, fetch, ntf>>

SpecTimeout == InitTimeout /\ [][GetMsgTimeout]_vars

----------------------------------------------------------------------------
\* the most notification threads that are created on a session
MaxSpawn == 3

\* the session before any call of nc_recv_notif_dispatch(): created counts the
\* threads pthread_create() has started, running those of them that have
\* not left nc_recv_notif_thread()
InitSpawn ==
    /\ SessionAtRest
    /\ call = [pc |-> "threads", created |-> 0, running |-> 0]

\* nc_recv_notif_dispatch(): the checks of L1076-1086 pass, session->ntf_tid
\* being NULL
DispatchEnter(t) ==
    /\ Running
    /\ pc[t] = "idle"
    /\ check_args("recv_notif_dispatch", GoodArgs) = "ok"
    /\ call.created < MaxSpawn
    /\ pc' = [pc EXCEPT ![t] = "dispatch_set"]
    /\ op' = [op EXCEPT ![t] = "recv_notif_dispatch"]
    /\ UNCHANGED <<session, server, want, cont, xml, wrote, ret, msg, out_msgid, before,
                   dropped, log, data, yielded, loader>>

\* nc_recv_notif_dispatch(): session->ntf_tid = malloc(...)
DispatchSet(t) ==
    /\ Running
    /\ pc[t] = "dispatch_set"
    /\ ntf_tid' = TRUE
    /\ pc' = [pc EXCEPT ![t] = "dispatch_create"]
    /\ UNCHANGED <<ti_lock, msgid, replies, notifs, next, freed, aborted, status, side,
                   server, op, want, cont, xml, wrote, ret, msg, out_msgid, before, dropped,
                   log, data, yielded, loader>>

\* nc_recv_notif_dispatch(): pthread_create() starts nc_recv_notif_thread()
\* and 0 is returned, or it fails, session->ntf_tid is freed and set to NULL
\* and -1 is returned
DispatchSpawn(t) ==
    /\ Running
    /\ pc[t] = "dispatch_create"
    /\ \E created \in BOOLEAN :
        IF created
        THEN /\ call' = [call EXCEPT !.created = @ + 1, !.running = @ + 1]
             /\ ret' = [ret EXCEPT ![t] = "0"]
             /\ ntf_tid' = ntf_tid
        ELSE /\ call' = call
             /\ ret' = [ret EXCEPT ![t] = "-1"]
             /\ ntf_tid' = FALSE
    /\ pc' = [pc EXCEPT ![t] = "done"]
    /\ UNCHANGED <<ti_lock, msgid, replies, notifs, next, freed, aborted, status, side,
                   server, op, want, cont, xml, wrote, msg, out_msgid, before, dropped,
                   log, data, yielded, hello, cpblts, ctx, clb, fill, failed, features,
                   fetch, ntf>>

\* nc_recv_notif_thread(): a thread finds session->ntf_tid NULL at the test
\* of its loop and returns
SpawnedExit ==
    /\ Running
    /\ call.running > 0
    /\ ~ntf_tid
    /\ call' = [call EXCEPT !.running = @ - 1]
    /\ UNCHANGED <<session, server, locals, yielded, hello, cpblts, ctx, clb, fill, failed,
                   features, fetch, ntf>>

\* the callers call nc_recv_notif_dispatch() on the session at will
NextSpawn ==
    \/ \E t \in Threads : DispatchEnter(t)
    \/ \E t \in Threads : ArgError(t, "recv_notif_dispatch", GoodArgs)
    \/ \E t \in Threads : DispatchSet(t)
    \/ \E t \in Threads : DispatchSpawn(t)
    \/ \E t \in Threads : Taken(t)
    \/ SpawnedExit

SpecSpawn == InitSpawn /\ [][NextSpawn]_vars

----------------------------------------------------------------------------
\* the most Call Home binds in client_opts.ch_binds
MaxBinds == 3

\* a null address, port 0 and NC_TI_NONE (0) as arguments
NoAddress == "(null)"
NoPort == 0
NC_TI_NONE == "NC_TI_NONE"

\* the entries nc_client_ch_add_bind_listen() appends: it refuses a null
\* address and port 0, and stores the transport it is given
BindEntries ==
    [address : {"a", "b"}, port : {1, 2}, ti : {"NC_TI_LIBSSH", "NC_TI_OPENSSL"}]

\* client_opts.ch_binds after some calls of nc_client_ch_add_bind_listen():
\* every entry listens on a socket of its own, so no two entries share
\* address and port
BindLists ==
    {b \in UNION {[1..n -> BindEntries] : n \in 0..MaxBinds} :
        \A i, j \in 1..Len(b) :
            (b[i].address = b[j].address /\ b[i].port = b[j].port) => i = j}

\* the client options before a call of nc_client_ch_del_bind(address, port,
\* ti): old keeps the entries the call started with
InitBind ==
    /\ SessionAtRest
    /\ \E b \in BindLists : \E address \in {NoAddress, "a", "b"} :
       \E port \in {NoPort, 1, 2} : \E ti \in {NC_TI_NONE, "NC_TI_LIBSSH", "NC_TI_OPENSSL"} :
          call = [pc |-> "nc_client_ch_del_bind", address |-> address, port |-> port,
                  ti |-> ti, old |-> b, ch_binds |-> b, ch_bind_count |-> Len(b),
                  ret |-> -1]

\* the condition of nc_client_ch_del_bind() on one entry
BindMatches(e, address, port, ti) ==
    /\ address = NoAddress \/ e.address = address
    /\ port = NoPort \/ e.port = port
    /\ ti = NC_TI_NONE \/ e.ti = ti

\* one removal: the count is decremented and the entry that was last is
\* copied over slot i (onto itself when slot i was the last, which leaves it
\* as it is); the array itself is not shrunk
BindRemove(c, i) ==
    [c EXCEPT !.ch_bind_count = c.ch_bind_count - 1,
              !.ch_binds = [c.ch_binds EXCEPT ![i] = c.ch_binds[c.ch_bind_count]],
              !.ret = 0]

\* the loop of nc_client_ch_del_bind() from slot i on (slot i is
\* ch_binds[i - 1] of the code); ++i follows a removal as it follows a miss
RECURSIVE BindScan(_, _)
BindScan(c, i) ==
    IF i > c.ch_bind_count THEN c
    ELSE IF BindMatches(c.ch_binds[i], c.address, c.port, c.ti)
         THEN BindScan(BindRemove(c, i), i + 1)
         ELSE BindScan(c, i + 1)

\* nc_client_ch_del_bind(): without any criterion the whole array is freed,
\* otherwise the loop runs
nc_client_ch_del_bind ==
    /\ call.pc = "nc_client_ch_del_bind"
    /\ call' = IF call.address = NoAddress /\ call.port = NoPort /\ call.ti = NC_TI_NONE
               THEN [call EXCEPT !.pc = "returned", !.ch_binds = <<>>, !.ch_bind_count = 0,
                                 !.ret = IF call.ch_bind_count > 0 THEN 0 ELSE -1]
               ELSE [BindScan(call, 1) EXCEPT !.pc = "returned"]
    /\ UNCHANGED <<session, server, locals, yielded, hello, cpblts, ctx, clb, fill, failed,
                   features, fetch, ntf>>

SpecBind == InitBind /\ [][nc_client_ch_del_bind]_vars

----------------------------------------------------------------------------
\* the longest <hello> of the peer, in capabilities
MaxCaps == 3

\* the session as nc_connect_inout() hands it to nc_ctx_check_and_fill()
\* after the handshake: the capabilities of the peer, a context that is empty
\* or holds modules of the caller, and the caller's module callback if any
InitFill ==
    /\ ti_lock = NoThread
    /\ msgid = 0
    /\ replies = NULL
    /\ notifs = NULL
    /\ next = [m \in Messages \cup BadMessages |-> NULL]
    /\ freed = {}
    /\ aborted = FALSE
    /\ status = "STARTING"
    /\ side = "CLIENT"
    /\ ntf_tid = FALSE
    /\ wire = <<>>
    /\ answered = {}
    /\ emitted = 0
    /\ junk = 0
    /\ pc = [t \in Threads |-> "idle"]
    /\ op = [t \in Threads |-> "none"]
    /\ want = [t \in Threads |-> 0]
    /\ cont = [t \in Threads |-> NULL]
    /\ xml = [t \in Threads |-> NULL]
    /\ wrote = [t \in Threads |-> 0]
    /\ ret = [t \in Threads |-> "NONE"]
    /\ msg = [t \in Threads |-> NULL]
    /\ out_msgid = [t \in Threads |-> 0]
    /\ before = [t \in Threads |-> <<>>]
    /\ dropped = [t \in Threads |-> NULL]
    /\ log = [t \in Threads |-> "none"]
    /\ data = [t \in Threads |-> "NULL"]
    /\ yielded = {}
    /\ \E n \in 1..MaxCaps : hello \in [1..n -> CapDescs]
    /\ cpblts = [k \in DOMAIN hello |-> Format(hello[k])]
    /\ ctx \in {{}, {Module(<<"acme">>, <<"2022-06-02">>)}, {IetfNetconf}}
    /\ clb \in {"NULL", "user"}
    /\ fill = [pc |-> "start", i |-> 0, ret |-> 0, get_schema_support |-> FALSE,
               old_clb |-> "NULL"]
    /\ failed = {}
    /\ features = {}
    /\ fetch = [t \in Threads |-> NoFetch]
    /\ ntf = NoNtf
    /\ call = NoCall

\* nc_ctx_check_and_fill(): get-schema support is looked for in the
\* capabilities; if it is there and ietf-netconf-monitoring is not in the
\* context, the local schema is parsed and on success the get-schema callback
\* is set
FillMonitoring ==
    /\ fill.pc = "start"
    /\ LET support == \E k \in 1..Len(cpblts) : HasPrefix(cpblts[k], MonitoringPrefix)
           mon == <<"ietf-netconf-monitoring">>
       IN IF support /\ ~ly_ctx_get_module(ctx, mon, NoString)
          THEN \E parsed \in BOOLEAN :
                  IF parsed
                  THEN /\ ctx' = ctx \cup {Module(mon, <<"2010-10-04">>)}
                       /\ clb' = "get-schema"
                       /\ fill' = [fill EXCEPT !.pc = "base", !.get_schema_support = support,
                                               !.old_clb = clb]
                  ELSE /\ fill' = [fill EXCEPT !.pc = "base", !.get_schema_support = support]
                       /\ UNCHANGED <<ctx, clb>>
          ELSE /\ fill' = [fill EXCEPT !.pc = "base", !.get_schema_support = support]
               /\ UNCHANGED <<ctx, clb>>
    /\ UNCHANGED <<session, server, locals, yielded, hello, cpblts, failed, features, fetch, ntf, call>>

\* nc_ctx_check_and_fill(): ctx_check_and_load_ietf_netconf() finds or loads
\* the base schema, or fails and -1 is returned
FillBase ==
    /\ fill.pc = "base"
    /\ \E obtained \in BOOLEAN :
        IF ly_ctx_get_module(ctx, IetfNetconf.name, NoString) \/ obtained
        THEN /\ ctx' = ctx \cup {IetfNetconf}
             /\ features' = features \cup EnabledFeatures(cpblts)
             /\ fill' = [fill EXCEPT !.pc = "loop", !.i = 1]
             /\ clb' = clb
        ELSE /\ clb' = IF fill.old_clb # "NULL" THEN fill.old_clb ELSE clb
             /\ fill' = [fill EXCEPT !.pc = "returned", !.ret = -1]
             /\ UNCHANGED <<ctx, features>>
    /\ UNCHANGED <<session, server, locals, yielded, hello, cpblts, failed, fetch, ntf, call>>

\* nc_ctx_check_and_fill(): one turn of the loop over the capabilities
FillLoad ==
    /\ fill.pc = "loop"
    /\ fill.i <= Len(cpblts)
    /\ LET cpblt == cpblts[fill.i]
       IN IF HasPrefix(cpblt, CapabilityPrefix) \/ HasPrefix(cpblt, BasePrefix)
          THEN /\ fill' = [fill EXCEPT !.i = fill.i + 1]
               /\ UNCHANGED <<ctx, clb, failed>>
          ELSE \E found, found_again \in BOOLEAN :
                 LET r == ctx_check_and_load_model(ctx, cpblt, found)
                     again == IF r = 1 /\ fill.get_schema_support
                              THEN ctx_check_and_load_model(ctx, cpblt, found_again)
                              ELSE r
                 IN /\ ctx' = ContextAfter(ctx, cpblt, again)
                    /\ IF r = -1
                       THEN /\ fill' = [fill EXCEPT !.pc = "end", !.ret = -1]
                            /\ UNCHANGED <<clb, failed>>
                       ELSE /\ fill' = [fill EXCEPT !.i = fill.i + 1,
                                                    !.ret = IF again # 0 THEN 1 ELSE fill.ret]
                            /\ clb' = IF r = 1 THEN "get-schema" ELSE clb
                            /\ failed' = IF again # 0 THEN failed \cup {fill.i} ELSE failed
    /\ UNCHANGED <<session, server, locals, yielded, hello, cpblts, features, fetch, ntf, call>>

\* nc_ctx_check_and_fill(): after the loop the old callback is set again if
\* there is one, and ret is returned
FillReturn ==
    /\ \/ fill.pc = "end"
       \/ fill.pc = "loop" /\ fill.i > Len(cpblts)
    /\ clb' = IF fill.old_clb # "NULL" THEN fill.old_clb ELSE clb
    /\ fill' = [fill EXCEPT !.pc = "returned"]
    /\ UNCHANGED <<session, server, locals, yielded, hello, cpblts, ctx, failed, features, fetch, ntf, call>>

nc_ctx_check_and_fill ==
    \/ FillMonitoring
    \/ FillBase
    \/ FillLoad
    \/ FillReturn

SpecFill == InitFill /\ [][nc_ctx_check_and_fill]_vars

----------------------------------------------------------------------------
\* session->status after a handshake that is not followed by an assignment
StatusKept == "STARTING"

\* nc_connect_inout(): session->status = NC_STATUS_RUNNING after nc_handshake()
StatusAfterHandshake == "RUNNING"

\* the thread nc_connect_inout() is called on
Connector == 1

\* nc_connect_inout() after "session->ctx = ctx": the session is Starting,
\* nothing was exchanged yet; hello is what the peer is going to advertise
InitConnect ==
    /\ ti_lock = NoThread
    /\ msgid = 0
    /\ replies = NULL
    /\ notifs = NULL
    /\ next = [m \in Messages \cup BadMessages |-> NULL]
    /\ freed = {}
    /\ aborted = FALSE
    /\ status = "STARTING"
    /\ side = "CLIENT"
    /\ ntf_tid = FALSE
    /\ wire = <<>>
    /\ answered = {}
    /\ emitted = 0
    /\ junk = 0
    /\ pc = [t \in Threads |-> "idle"]
    /\ op = [t \in Threads |-> "none"]
    /\ want = [t \in Threads |-> 0]
    /\ cont = [t \in Threads |-> NULL]
    /\ xml = [t \in Threads |-> NULL]
    /\ wrote = [t \in Threads |-> 0]
    /\ ret = [t \in Threads |-> "NONE"]
    /\ msg = [t \in Threads |-> NULL]
    /\ out_msgid = [t \in Threads |-> 0]
    /\ before = [t \in Threads |-> <<>>]
    /\ dropped = [t \in Threads |-> NULL]
    /\ log = [t \in Threads |-> "none"]
    /\ data = [t \in Threads |-> "NULL"]
    /\ yielded = {}
    /\ \E n \in 1..MaxCaps : hello \in [1..n -> CapDescs]
    /\ cpblts = <<>>
    /\ ctx \in {{}, {IetfNetconf}}
    /\ clb = "NULL"
    /\ fill = [pc |-> "none", i |-> 0, ret |-> 0, get_schema_support |-> FALSE,
               old_clb |-> "NULL"]
    /\ failed = {}
    /\ features = {}
    /\ fetch = [t \in Threads |-> NoFetch]
    /\ ntf = NoNtf
    /\ call = [pc |-> "nc_handshake", handshake |-> "none", session |-> "none",
               session_free |-> FALSE]

\* nc_connect_inout(): nc_handshake() fills session->cpblts from the <hello>
\* of the peer, or fails: goto fail, nc_session_free(session), return NULL
ConnHandshake ==
    /\ call.pc = "nc_handshake"
    /\ \E ok \in BOOLEAN :
        IF ok
        THEN /\ cpblts' = [k \in DOMAIN hello |-> Format(hello[k])]
             /\ call' = [call EXCEPT !.pc = "status", !.handshake = "ok"]
        ELSE /\ cpblts' = cpblts
             /\ call' = [call EXCEPT !.pc = "returned", !.handshake = "failed",
                                     !.session = "NULL", !.session_free = TRUE]
    /\ UNCHANGED <<session, server, locals, yielded, hello, ctx, clb, fill, failed, features,
                   fetch, ntf>>

\* nc_connect_inout(): session->status = NC_STATUS_RUNNING, then
\* nc_ctx_check_and_fill(session) is called
ConnRunning ==
    /\ call.pc = "status"
    /\ status' = StatusAfterHandshake
    /\ call' = [call EXCEPT !.pc = "nc_ctx_check_and_fill"]
    /\ fill' = [fill EXCEPT !.pc = "start"]
    /\ UNCHANGED <<ti_lock, msgid, replies, notifs, next, freed, aborted, side, ntf_tid,
                   server, locals, yielded, hello, cpblts, ctx, clb, failed, features,
                   fetch, ntf>>

\* libyang_module_clb() is not at work
NoFetchGoingOn == fetch[Connector].pc \notin {"send", "recv"} /\ pc[Connector] = "idle"

\* nc_connect_inout(): nc_ctx_check_and_fill() at work
ConnFill ==
    /\ call.pc = "nc_ctx_check_and_fill"
    /\ NoFetchGoingOn
    /\ nc_ctx_check_and_fill

\* nc_ctx_check_and_fill(): while a module is loaded with the get-schema
\* callback set, the schema library calls libyang_module_clb(), which sends
\* <get-schema> and receives the reply on the session
ConnFetch ==
    /\ call.pc = "nc_ctx_check_and_fill"
    /\ fill.pc = "loop"
    /\ clb = "get-schema"
    /\ \/ libyang_module_clb(Connector)
       \/ ReadMsg(Connector) \/ Park(Connector)

\* nc_connect_inout(): nc_ctx_check_and_fill() has returned; -1: goto fail,
\* nc_session_free(session), return NULL; otherwise return session
ConnReturn ==
    /\ call.pc = "nc_ctx_check_and_fill"
    /\ fill.pc = "returned"
    /\ call' = IF fill.ret = -1
               THEN [call EXCEPT !.pc = "returned", !.session = "NULL", !.session_free = TRUE]
               ELSE [call EXCEPT !.pc = "returned", !.session = "session"]
    /\ UNCHANGED <<session, server, locals, yielded, hello, cpblts, ctx, clb, fill, failed,
                   features, fetch, ntf>>

nc_connect_inout ==
    \/ ConnHandshake
    \/ ConnRunning
    \/ ConnFill
    \/ ConnFetch
    \/ ConnReturn

\* nc_connect_inout() with a server that answers the <get-schema> requests
NextConnect ==
    \/ nc_connect_inout
    \/ \E k \in 1..MaxSend : ServerReply(k)
    \/ \E k \in 1..MaxSend : ServerData(k)

SpecConnect == InitConnect /\ [][NextConnect]_vars

\* the NETCONF capabilities a peer may advertise: the eight that stand for a
\* feature of ietf-netconf and one that does not, in two versions
CapabilityNames == {"writable-running", "candidate", "confirmed-commit", "rollback-on-error",
                    "validate", "startup", "url", "xpath", "notification"}
FeatureCaps ==
    {[kind |-> "capability", name |-> n, version |-> v] :
        n \in CapabilityNames, v \in {":1.0", ":1.1"}}
    \cup {[kind |-> "base"]}

\* the session handed to nc_ctx_check_and_fill() when the <hello> of the peer
\* holds NETCONF capabilities only
InitFeat ==
    /\ ti_lock = NoThread
    /\ msgid = 0
    /\ replies = NULL
    /\ notifs = NULL
    /\ next = [m \in Messages \cup BadMessages |-> NULL]
    /\ freed = {}
    /\ aborted = FALSE
    /\ status = "STARTING"
    /\ side = "CLIENT"
    /\ ntf_tid = FALSE
    /\ wire = <<>>
    /\ answered = {}
    /\ emitted = 0
    /\ junk = 0
    /\ pc = [t \in Threads |-> "idle"]
    /\ op = [t \in Threads |-> "none"]
    /\ want = [t \in Threads |-> 0]
    /\ cont = [t \in Threads |-> NULL]
    /\ xml = [t \in Threads |-> NULL]
    /\ wrote = [t \in Threads |-> 0]
    /\ ret = [t \in Threads |-> "NONE"]
    /\ msg = [t \in Threads |-> NULL]
    /\ out_msgid = [t \in Threads |-> 0]
    /\ before = [t \in Threads |-> <<>>]
    /\ dropped = [t \in Threads |-> NULL]
    /\ log = [t \in Threads |-> "none"]
    /\ data = [t \in Threads |-> "NULL"]
    /\ yielded = {}
    /\ \E n \in 1..MaxCaps : hello \in [1..n -> FeatureCaps]
    /\ cpblts = [k \in DOMAIN hello |-> Format(hello[k])]
    /\ ctx \in {{}, {IetfNetconf}}
    /\ clb = "NULL"
    /\ fill = [pc |-> "start", i |-> 0, ret |-> 0, get_schema_support |-> FALSE,
               old_clb |-> "NULL"]
    /\ failed = {}
    /\ features = {}
    /\ fetch = [t \in Threads |-> NoFetch]
    /\ ntf = NoNtf
    /\ call = NoCall

SpecFeat == InitFeat /\ [][nc_ctx_check_and_fill]_vars

\* a session in any status and of either side, used by callers that also
\* pass bad arguments; the server sends replies only
InitArg ==
    /\ ti_lock = NoThread
    /\ msgid = 0
    /\ replies = NULL
    /\ notifs = NULL
    /\ next = [m \in Messages \cup BadMessages |-> NULL]
    /\ freed = {}
    /\ aborted = FALSE
    /\ status \in {"STARTING", "RUNNING", "INVALID"}
    /\ side \in {"CLIENT", "SERVER"}
    /\ ntf_tid = FALSE
    /\ wire = <<>>
    /\ answered = {}
    /\ emitted = 0
    /\ junk = 0
    /\ pc = [t \in Threads |-> "idle"]
    /\ op = [t \in Threads |-> "none"]
    /\ want = [t \in Threads |-> 0]
    /\ cont = [t \in Threads |-> NULL]
    /\ xml = [t \in Threads |-> NULL]
    /\ wrote = [t \in Threads |-> 0]
    /\ ret = [t \in Threads |-> "NONE"]
    /\ msg = [t \in Threads |-> NULL]
    /\ out_msgid = [t \in Threads |-> 0]
    /\ before = [t \in Threads |-> <<>>]
    /\ dropped = [t \in Threads |-> NULL]
    /\ log = [t \in Threads |-> "none"]
    /\ data = [t \in Threads |-> "NULL"]
    /\ yielded = {}
    /\ LoaderIdle

NextArg ==
    \/ \E k \in 1..MaxSend : ServerReply(k)
    \/ \E t \in Threads : \E o \in {"send_rpc", "recv_reply", "recv_notif",
                                      "recv_notif_dispatch"} :
          \E a \in Args : ArgError(t, o, a)
    \/ \E t \in Threads : nc_recv_notif_dispatch(t)
    \/ \E t \in Threads : nc_send_rpc(t)
    \/ \E t \in Threads : nc_recv_notif(t)
    \/ \E t \in Threads : nc_recv_reply(t)
    \/ \E t \in Threads : ReplyPop(t) \/ ReadMsg(t) \/ Park(t)
    \/ \E t \in Threads : Taken(t)

SpecArg == InitArg /\ [][NextArg]_vars

----------------------------------------------------------------------------
\* the lines of get_msg() and nc_send_rpc() between the locking and the
\* unlocking of session->ti_lock
InCriticalSection(t) ==
    pc[t] \in {"send_msg", "send_read", "notif_pop", "reply_pop", "read", "park"}

\* thread t has just returned r from the API function o
Returned(t, o, r) == pc[t] = "done" /\ op[t] = o /\ ret[t] = r

\* the messages in a queue
InQueue(head) == {ListFrom(head)[i] : i \in 1..Len(ListFrom(head))}

\* the messages on the transport
OnWire == {wire[i] : i \in 1..Len(wire)}

\* message m has been written by the server and is still on its way to a
\* caller: on the transport, in a queue, or in the hands of a get_msg() call
InFlight(m) ==
    \/ m \in OnWire
    \/ m \in InQueue(replies) \cup InQueue(notifs)
    \/ \E t \in Threads : xml[t] = m \/ cont[t] = m

----------------------------------------------------------------------------
\* C1: whenever nc_recv_reply(k), k # 0, returns Reply, the reply it delivers
\* carries message-id k, whether it came from the reply queue or from the
\* transport.
C1_ReplyCarriesWantedId ==
    \A t \in Threads :
        Returned(t, "recv_reply", "REPLY") /\ want[t] # 0 => msg[t] = Reply(want[t])

\* C2: nc_recv_reply(k), k # 0, that reads notifications from the transport
\* parks them and keeps reading; it returns Reply, WouldBlock or Error, never
\* the Notification outcome.
C2_RecvReplyNeverNotif ==
    \A t \in Threads :
        pc[t] = "done" /\ op[t] = "recv_reply" /\ want[t] # 0
            => ret[t] \in {"REPLY", "WOULDBLOCK", "ERROR"}

\* C3: nc_recv_notif that reads an rpc-reply from the transport parks it and
\* keeps reading; it returns Notification, WouldBlock or Error, never the
\* Reply outcome.
C3_RecvNotifNeverReply ==
    \A t \in Threads :
        pc[t] = "done" /\ op[t] = "recv_notif"
            => ret[t] \in {"NOTIF", "WOULDBLOCK", "ERROR"}

\* C4: the message-id a successful nc_send_rpc reports to its caller is the
\* one that call wrote on the wire (so that the reported ids are 1, 2, 3, ...
\* without gap or duplicate, as the ids on the wire are).
C4_ReportedIdIsWrittenId ==
    \A t \in Threads :
        Returned(t, "send_rpc", "RPC") => out_msgid[t] = wrote[t]

\* C5: the reply to a message-id is handed to at most one nc_recv_reply call:
\* no call returns a reply that an earlier call has already returned.
C5_ReplyYieldedOnce ==
    [][\A t \in Threads : \A k \in 1..MaxSend :
          pc[t] # "done" /\ Returned(t, "recv_reply", "REPLY")' /\ msg'[t] = Reply(k)
              => k \notin yielded]_vars

C7_ParkedReplyKeptForItsCaller ==
    [][\A k \in 1..MaxSend :
          Reply(k) \in InQueue(replies) /\ Reply(k) \notin InQueue(replies)'
              => \E t \in Threads :
                    /\ Returned(t, "recv_reply", "REPLY")'
                    /\ want'[t] = k
                    /\ msg'[t] = Reply(k)]_vars

\* C8: with two requests outstanding, the reply to one request is never
\* consumed by the caller waiting for the other: a reply on its way leaves the
\* session only as the result of an nc_recv_reply call asking for its own id.
C8_ReplyOnlyToItsOwnCaller ==
    [][\A k \in 1..MaxSend :
          msgid = 2 /\ InFlight(Reply(k)) /\ ~InFlight(Reply(k))' /\ ~aborted'
              => \E t \in Threads :
                    /\ Returned(t, "recv_reply", "REPLY")'
                    /\ want'[t] = k
                    /\ msg'[t] = Reply(k)]_vars

\* C9: nc_recv_notif returns the notifications in the order of the wire: the
\* queue holds them in wire order, and a notification that is returned is
\* older than every notification still on its way.
C9_NotifsInWireOrder ==
    /\ \A i, j \in 1..Len(ListFrom(notifs)) :
          i < j => ListFrom(notifs)[i].id < ListFrom(notifs)[j].id
    /\ \A t \in Threads : \A n \in 1..MaxNotif :
          Returned(t, "recv_notif", "NOTIF") /\ InFlight(Notif(n))
              => msg[t].id < n

\* C10: at most one thread is inside the critical section of the session, and
\* it is the one that holds the lock: nobody else releases it.
C10_MutualExclusion ==
    \A t \in Threads : InCriticalSection(t) => ti_lock = t

\* C11: a call that finds the lock held by another thread and returns
\* WouldBlock leaves the message-id counter, both queues, the wire and the
\* ownership of the lock as they were.
C11_BusyCallLeavesSessionAlone ==
    [][\A t \in Threads :
          pc[t] = "idle" /\ pc'[t] = "done" /\ ret'[t] = "WOULDBLOCK"
              => /\ ti_lock' = ti_lock
                 /\ msgid' = msgid
                 /\ replies' = replies /\ notifs' = notifs /\ next' = next
                 /\ wire' = wire]_vars

\* C12: when nc_recv_reply or nc_recv_notif has taken the lock and returns
\* WouldBlock because the read timed out, both queues hold the entries they
\* held when the call took the lock, in the same order.
C12_ReadTimeoutKeepsQueues ==
    \A t \in Threads :
        /\ pc[t] = "done" /\ op[t] \in {"recv_reply", "recv_notif"}
        /\ ret[t] = "WOULDBLOCK" /\ before[t] # <<>>
        => before[t] = <<ListFrom(replies), ListFrom(notifs)>>

\* C13: when nc_recv_notif reads an <rpc-reply> without message-id, it returns
\* Error, the message is dropped, the caller does not hold the lock any more,
\* and both queues are as they were.
C13_ReplyWithoutIdDropped ==
    [][\A t \in Threads :
          pc[t] = "park" /\ op[t] = "recv_notif" /\ xml[t] = Reply(0) /\ pc'[t] # "park"
              => /\ Returned(t, "recv_notif", "ERROR")'
                 /\ dropped'[t] = Reply(0) /\ msg'[t] = NULL
                 /\ Reply(0) \notin InQueue(replies)' \cup InQueue(notifs)'
                 /\ ti_lock' # t
                 /\ replies' = replies /\ notifs' = notifs /\ next' = next]_vars

\* nc_recv_notif has dropped an <rpc-reply> without message-id while a reply
\* was waiting in the reply queue
C13_Witness ==
    \E t \in Threads :
        /\ Returned(t, "recv_notif", "ERROR")
        /\ dropped[t] = Reply(0)
        /\ replies # NULL

\* C14: when nc_recv_reply or nc_recv_notif reads a <hello> from the
\* transport of a Running session, the call returns Error and the session
\* status becomes Invalid.
C14_HelloInvalidatesSession ==
    [][\A t \in Threads :
          pc[t] = "park" /\ xml[t] = Hello /\ status = "RUNNING" /\ pc'[t] # "park"
              => /\ pc'[t] = "done" /\ ret'[t] = "ERROR"
                 /\ status' = "INVALID"]_vars

C16_LockFailureInvalidatesSession ==
    [][\A t \in Threads :
          /\ pc[t] = "idle" /\ pc'[t] = "done"
          /\ op'[t] \in {"send_rpc", "recv_reply", "recv_notif"}
          /\ ret'[t] = "ERROR" /\ log'[t] = "none"
          => status' = "INVALID"]_vars

\* C17: nc_send_rpc, nc_recv_reply, nc_recv_notif and nc_recv_notif_dispatch
\* called with a missing argument, with reserved parser option bits, or on a
\* session that is not Running or not of the client side return an error
\* without taking the lock and leave the message-id counter, both queues, the
\* dispatcher handle and the session status as they were.
C17_RejectedCallChangesNothing ==
    [][\A t \in Threads :
          /\ pc[t] = "idle" /\ pc'[t] # "idle"
          /\ \/ log'[t] \in {"ERRARG", "invalid session"}
             \/ status # "RUNNING"
             \/ side # "CLIENT"
          => /\ pc'[t] = "done" /\ ret'[t] \in {"ERROR", "-1"}
             /\ log'[t] \in {"ERRARG", "invalid session"}
             /\ ti_lock' = ti_lock /\ msgid' = msgid
             /\ replies' = replies /\ notifs' = notifs /\ next' = next
             /\ ntf_tid' = ntf_tid /\ status' = status /\ wire' = wire]_vars

\* a call was rejected for its arguments while another thread was inside the
\* critical section and a reply was parked
C17_Witness ==
    \E t, u \in Threads :
        /\ pc[t] = "done" /\ log[t] = "ERRARG"
        /\ InCriticalSection(u) /\ ti_lock = u
        /\ replies # NULL

\* what nc_send_rpc() reports when the build of the rpc fails
BuildFailures == {"missing ietf-netconf", "missing ietf-netconf-monitoring",
                  "missing notifications", "missing ietf-netconf-with-defaults",
                  "node not created", "validation failed"}

\* C18: an nc_send_rpc() call whose build fails (a required schema is not
\* loaded, a node of the rpc cannot be created, or strict validation fails)
\* returns NC_MSG_ERROR at once: it does not take session->ti_lock, writes
\* nothing and consumes no message-id.
C18_BuildFailureReturnsBeforeLock ==
    [][\A t \in Threads :
          /\ pc[t] = "idle" /\ pc'[t] # "idle" /\ op'[t] = "send_rpc"
          /\ \/ log'[t] \in BuildFailures
             \/ data'[t] = "partial"
          => /\ pc'[t] = "done" /\ ret'[t] = "ERROR"
             /\ ti_lock' = ti_lock /\ msgid' = msgid /\ wire' = wire]_vars

\* the capabilities of the peer that ask for a module: neither the base
\* capability nor a NETCONF capability
NonBase == {k \in 1..Len(hello) : hello[k].kind \notin {"base", "capability"}}

\* the base schema is in the context
BaseObtained == ly_ctx_get_module(ctx, IetfNetconf.name, NoString)

\* C19: nc_ctx_check_and_fill() returns 0 if every advertised non-base module
\* was loaded, 1 if one or more of them failed to load, and -1 only if the
\* base schema ietf-netconf cannot be obtained, whatever the non-base
\* capability strings contain.
C19_FatalOnlyWithoutBase ==
    fill.pc = "returned" =>
        /\ fill.ret = -1 <=> ~BaseObtained
        /\ fill.ret = 1 <=> BaseObtained /\ failed # {}
        /\ fill.ret = 0 <=> BaseObtained /\ failed = {}

\* C20: when nc_ctx_check_and_fill() returns 0, the module named by every
\* capability of the peer that is neither the base nor a NETCONF capability
\* is in the context, in the advertised revision if one is advertised; and a
\* capability whose module no attempt could load keeps the result from
\* being 0.
C20_OkMeansEveryModuleLoaded ==
    fill.pc = "returned" /\ fill.ret = 0 =>
        /\ \A k \in NonBase :
              /\ hello[k].kind = "module"
              /\ \E m \in ctx :
                    /\ m.name = <<hello[k].name>>
                    /\ hello[k].rev # "none" => m.rev = <<hello[k].rev>>
        /\ failed = {}

\* 0 is returned for a <hello> in which a module failed to load at first and
\* was loaded at the second attempt, and another is advertised with its
\* revision before its name
C20_Witness ==
    /\ fill.pc = "returned" /\ fill.ret = 0
    /\ clb = "get-schema"
    /\ Cardinality(NonBase) >= 2
    /\ \E k \in NonBase : hello[k].rev # "none" /\ hello[k].order = "revision"
    /\ Module(<<"acme">>, <<"2021-05-01">>) \in ctx
    /\ Module(<<"acme">>, <<"2022-06-02">>) \in ctx

\* the feature of ietf-netconf a NETCONF capability stands for, or "none"
NamedFeature(d) ==
    IF d.kind # "capability" THEN "none"
    ELSE IF d.name \in {"writable-running", "candidate", "rollback-on-error", "startup",
                        "url", "xpath"} THEN d.name
    ELSE IF d.name \in {"confirmed-commit", "validate"} /\ d.version = ":1.1" THEN d.name
    ELSE "none"

C22_FetchFailureReturnsNull ==
    [][\A t \in Threads :
          fetch[t].pc \in {"send", "recv"} /\ <<pc[t], fetch[t]>>' # <<pc[t], fetch[t]>> =>
             /\ \A u \in Threads \ {t} :
                   ti_lock = u /\ InCriticalSection(u) => ti_lock' = u
             /\ fetch'[t].pc \notin {"send", "recv"} =>
                   /\ ti_lock' # t
                   /\ ~aborted'
                   /\ fetch'[t].pc = "model" =>
                         /\ ret[t] = "REPLY" /\ msg[t] # NULL
                         /\ parse_reply(msg[t].body, "GETSCHEMA", TRUE) = "NC_RPL_DATA"]_vars

\* parse_reply() has returned
Parsed == call.pc = "returned" /\ "reply" \in DOMAIN call

\* C23: parse_reply() yields an ok reply only when <ok> in the base namespace
\* is the single child; it yields an error reply only when every child is
\* <rpc-error> in the base namespace, and then with as many error records as
\* there are children, at least one; an empty <rpc-reply>, <ok> followed by a
\* sibling, and <rpc-error> mixed with any other child yield NULL.
C23_OkAndErrorRepliesWellFormed ==
    Parsed =>
        LET c == call.children
            errs == {i \in 1..Len(c) : c[i] = RpcErrorElem}
        IN /\ call.reply = "NC_RPL_OK" => c = <<OkElem>>
           /\ call.reply = "NC_RPL_ERROR" =>
                 errs = 1..Len(c) /\ call.count = Len(c) /\ call.count >= 1
           /\ \/ c = <<>>
              \/ Len(c) > 1 /\ c[1] = OkElem
              \/ errs # {} /\ errs # 1..Len(c)
              => call.reply = "NULL"

\* C24: for an rpc of type Edit, Copy, Delete, Lock, Unlock, Kill, Commit,
\* Discard, Cancel, Validate or Subscribe, a reply whose first child is
\* neither <ok> nor <rpc-error> of the base namespace makes parse_reply()
\* return NULL and nc_recv_reply() return NC_MSG_ERROR; a data reply is built
\* only for an rpc of type Generic, GetConfig, Get or GetSchema.
C24_NoOutputMeansNoDataReply ==
    Parsed =>
        /\ /\ call.rpc_type \in {"EDIT", "COPY", "DELETE", "LOCK", "UNLOCK", "KILL", "COMMIT",
                                 "DISCARD", "CANCEL", "VALIDATE", "SUBSCRIBE"}
           /\ call.children # <<>>
           /\ call.children[1] \notin {OkElem, RpcErrorElem}
           => call.reply = "NULL" /\ call.msgtype = "ERROR"
        /\ call.reply = "NC_RPL_DATA" =>
              call.rpc_type \in {"GENERIC", "GETCONFIG", "GET", "GETSCHEMA"}
        /\ call.msgtype = "ERROR" <=> call.reply = "NULL"

\* <data> came in reply to a <commit> and was refused, although libyang could
\* have parsed it
C24_Witness ==
    /\ Parsed
    /\ call.rpc_type = "COMMIT" /\ call.children = <<DataElem>> /\ call.parsed
    /\ call.reply = "NULL" /\ call.msgtype = "ERROR"

\* parse_rpc_error() is at work or has returned
InRpcError == call.pc \in {"parse_rpc_error", "returned"} /\ "err" \in DOMAIN call

\* C25: whatever children an <rpc-error> has, the tag of the record is absent
\* or one of the NETCONF error tags, its type is absent or one of transport,
\* rpc, protocol, application, and its severity is absent or error or
\* warning.
C25_ClosedSetFieldsOnly ==
    InRpcError =>
        /\ call.err.type \in {NoContent, "transport", "rpc", "protocol", "application"}
        /\ call.err.severity \in {NoContent, "error", "warning"}
        /\ call.err.tag \in
              {NoContent, "in-use", "invalid-value", "too-big", "missing-attribute",
               "bad-attribute", "unknown-attribute", "missing-element", "bad-element",
               "unknown-element", "unknown-namespace", "access-denied", "lock-denied",
               "resource-denied", "rollback-failed", "data-exists", "data-missing",
               "operation-not-supported", "operation-failed", "partial-operation",
               "malformed-message"}

\* an <rpc-error> whose unknown <error-tag> and <error-type> were dropped
\* while its <error-severity> was stored
C25_Witness ==
    /\ call.pc = "returned" /\ "err" \in DOMAIN call
    /\ Leaf("error-tag", "bogus") \in {call.children[k] : k \in 1..Len(call.children)}
    /\ Leaf("error-type", "bogus") \in {call.children[k] : k \in 1..Len(call.children)}
    /\ call.err.tag = NoContent /\ call.err.type = NoContent
    /\ call.err.severity = "warning"

\* the contents of the occurrences of field f among the elements c, in
\* document order; the children of <error-info> are where session-id occurs
RECURSIVE Occurrences(_, _)
Occurrences(c, f) ==
    IF c = <<>> THEN <<>>
    ELSE (IF c[1].ns # "base" THEN <<>>
          ELSE IF c[1].name = "error-info" THEN Occurrences(c[1].info, f)
          ELSE IF FieldOf(c[1].name) = f
          THEN <<[name |-> c[1].name, content |-> c[1].content]>>
          ELSE <<>>)
         \o Occurrences(Tail(c), f)

\* what the record holds for an occurrence that is stored
StoredAs(content) == IF content = NoContent THEN "" ELSE content

\* C26 as stated: when parse_rpc_error() has returned, every singleton field
\* that occurs in the <rpc-error> holds the value of its first occurrence
\* (nothing, if that value is outside the closed set of the field).
C26_FirstOccurrenceWins ==
    call.pc = "returned" /\ "err" \in DOMAIN call =>
        \A f \in ErrFields :
            LET occ == Occurrences(call.children, f)
            IN occ # <<>> =>
                  call.err[f] \in {StoredAs(occ[1].content), NoContent}

\* the occurrences whose content passes the test of the field
RECURSIVE AcceptedOnly(_)
AcceptedOnly(occ) ==
    IF occ = <<>> THEN <<>>
    ELSE (IF (occ[1].name = "error-type" => occ[1].content \in ErrorTypes)
             /\ (occ[1].name = "error-tag" => occ[1].content \in ErrorTags)
             /\ (occ[1].name = "error-severity" => occ[1].content \in ErrorSeverities)
          THEN <<occ[1]>> ELSE <<>>)
         \o AcceptedOnly(Tail(occ))

\* C26 amended: at every turn of the loop each singleton field holds the
\* value of the first occurrence, among the children looked at so far, whose
\* content the field accepts, and is not set if there is none; so a field
\* that is set is never changed by a later occurrence.
C26_FirstAcceptedOccurrenceWins ==
    InRpcError =>
        \A f \in ErrFields :
            LET occ == AcceptedOnly(Occurrences(SubSeq(call.children, 1, call.i - 1), f))
            IN call.err[f] = IF occ = <<>> THEN NoContent ELSE StoredAs(occ[1].content)

\* an <rpc-error> with <error-path>a, <error-path>b and an <error-info> that
\* holds two <session-id>: the record keeps a for both
C26_Witness ==
    /\ call.pc = "returned" /\ "err" \in DOMAIN call
    /\ call.children = <<Leaf("error-path", "a"), Leaf("error-path", "b"),
                         ErrElem("error-info", "base", NoContent,
                                 <<Leaf("session-id", "a"), Leaf("session-id", "b")>>)>>
    /\ call.err.path = "a" /\ call.err.sid = "a"

\* the notification thread has called notif_clb with the notificationComplete
CompleteDelivered ==
    \E k \in 1..Len(ntf.delivered) : ntf.delivered[k] = ntf.complete

\* C27: the notification thread calls notif_clb once for each notification
\* it receives, in the order the notifications arrived in (the server numbers
\* them as it emits them), and calls it no more once it has delivered the
\* notificationComplete; once session->ntf_tid is cleared or the
\* notificationComplete is delivered the thread terminates (or the process
\* has ended).
C27_DispatcherDeliversInOrderAndStops ==
    /\ [](\A i, j \in 1..Len(ntf.delivered) : i < j => ntf.delivered[i] < ntf.delivered[j])
    /\ [][CompleteDelivered => ntf'.delivered = ntf.delivered]_vars
    /\ (ntf.pc # "none" /\ (~ntf_tid \/ CompleteDelivered)) ~> (ntf.pc = "exited" \/ ~Running)

\* C28: in nc_ctx_check_and_fill() the get-schema callback is set in the
\* context only if the peer advertised ietf-netconf-monitoring and that
\* module is in the context; so it is never set when get-schema is not
\* supported, and when the function has returned without get-schema support
\* the callback is the one the caller had set.
C28_GetSchemaCallbackOnlyWithMonitoring ==
    clb = "get-schema" =>
        /\ \E k \in 1..Len(cpblts) : HasPrefix(cpblts[k], MonitoringPrefix)
        /\ ly_ctx_get_module(ctx, <<"ietf-netconf-monitoring">>, NoString)

\* C29: in nc_connect_inout() the status is Starting until the handshake has
\* succeeded and Running from then on, the only change of the status being
\* the one from Starting to Running between the handshake and the call of
\* nc_ctx_check_and_fill(); so whenever the loader's libyang_module_clb()
\* sends or receives, nc_send_rpc() and nc_recv_reply() accept the session.
\* When the handshake fails or the loader returns -1 the session is freed
\* and NULL is returned; otherwise, the loader's 1 included, the session is
\* returned, not freed, and Running.
C29_RunningBeforeSchemaDiscovery ==
    /\ [](call.pc = "nc_handshake" => status = "STARTING")
    /\ [](call.pc = "nc_ctx_check_and_fill" => status = "RUNNING")
    /\ [](fetch[Connector].pc \in {"send", "recv"} =>
             /\ check_args("send_rpc", GoodArgs) = "ok"
             /\ check_args("recv_reply", GoodArgs) = "ok")
    /\ [](call.pc = "returned" =>
             /\ (call.session = "NULL") = (call.handshake = "failed" \/ fill.ret = -1)
             /\ call.session_free = (call.session = "NULL")
             /\ call.session # "NULL" => call.session = "session" /\ status = "RUNNING"
             /\ fill.ret = 1 => call.session = "session" /\ status = "RUNNING")
    /\ [][status' # status =>
             status = "STARTING" /\ status' = "RUNNING" /\ call.pc = "status"]_vars

\* the loader fetched a module with <get-schema>, another module failed to
\* load, and the session is returned
C29_Witness ==
    /\ call.pc = "returned"
    /\ call.session = "session"
    /\ fill.ret = 1
    /\ fetch[Connector].pc = "model"
    /\ status = "RUNNING"

\* the positions of the replies with message-id k in the list q
Matches(q, k) == {i \in 1..Len(q) : q[i].id = k}
FirstMatch(q, k) == CHOOSE i \in Matches(q, k) : \A j \in Matches(q, k) : i <= j

\* C30: a call nc_recv_reply(k) that found the reply queue non-empty, once it
\* has returned: if the queue held a reply with message-id k, the first such
\* entry is what the call hands out and the queue holds the entries that
\* were behind it, in their order (the entries before it are gone); if it
\* held none, the queue is empty from the moment the call reads from the
\* transport.
C30_ScanKeepsEntriesBehindMatch ==
    \A t \in Threads :
        op[t] = "recv_reply" /\ want[t] # 0 /\ before[t] # <<>> /\ before[t][1] # <<>> =>
            LET q == before[t][1]
                k == want[t]
            IN IF Matches(q, k) # {}
               THEN pc[t] = "done" =>
                       /\ ret[t] \in {"REPLY", "ERROR"}
                       /\ ret[t] = "REPLY" => msg[t] = q[FirstMatch(q, k)]
                       /\ ListFrom(replies) = SubSeq(q, FirstMatch(q, k) + 1, Len(q))
               ELSE pc[t] \in {"read", "park", "done"} => replies = NULL

\* C31: a thread that is not inside nc_send_rpc(), nc_recv_reply() or
\* nc_recv_notif(), or that has just returned from one of them by whatever
\* path, does not hold the session lock; so the lock is only ever held by a
\* thread that is between its acquisition and its return, and no call leaves
\* it locked behind itself.
C31_NoLockHeldAfterReturn ==
    /\ \A t \in Threads : pc[t] \in {"idle", "done"} => ti_lock # t
    /\ ti_lock # NoThread =>
          pc[ti_lock] \in {"send_msg", "send_read", "notif_pop", "reply_pop", "read", "park"}

\* a call that took the lock while a reply was queued has returned that
\* reply, and the lock is free
C31_Witness ==
    \E t \in Threads :
        /\ pc[t] = "done" /\ op[t] = "recv_reply" /\ ret[t] = "REPLY"
        /\ before[t] # <<>> /\ before[t][1] # <<>>
        /\ ti_lock = NoThread

\* C32: whenever an entry leaves the notification queue, a call of
\* nc_recv_notif() takes it out and returns it to its caller, and whenever an
\* entry leaves the reply queue, a call of nc_recv_reply() takes it out;
\* whatever the message-id argument is.
C32_QueuesTouchedByTheirOwnCallOnly ==
    [][/\ \A m \in InQueue(notifs) \ InQueue(notifs)' :
              \E t \in Threads :
                  /\ pc[t] = "notif_pop" /\ op[t] = "recv_notif"
                  /\ pc'[t] = "done" /\ ret'[t] = "NOTIF" /\ msg'[t] = m
       /\ \A m \in InQueue(replies) \ InQueue(replies)' :
              \E t \in Threads : pc[t] = "reply_pop" /\ op[t] = "recv_reply"]_vars

\* C33: the timeout get_msg() calls the read with is, for a positive timeout
\* argument, the argument minus the elapsed time nc_timedlock() reported, and
\* not negative (a negative timeout is an infinite wait); a timeout argument
\* of 0 or below is passed on as it is.
C33_ReadTimeoutNeverTurnsInfinite ==
    call.pc = "nc_read_msg_poll" =>
        IF call.timeout > 0
        THEN call.read_timeout = call.timeout - call.elapsed /\ call.read_timeout >= 0
        ELSE call.read_timeout = call.timeout

\* C34: at no time is more than one notification thread running on the
\* session; a call of nc_recv_notif_dispatch() made while session->ntf_tid is
\* set returns -1 and starts no thread; and when pthread_create() fails the
\* call leaves session->ntf_tid cleared.
C34_AtMostOneDispatcherThread ==
    /\ [](call.pc = "threads" => call.running <= 1)
    /\ [][\A t \in Threads :
             pc[t] = "idle" /\ op'[t] = "recv_notif_dispatch" /\ ntf_tid
                 => pc'[t] = "done" /\ ret'[t] = "-1" /\ call' = call]_vars
    /\ [][\A t \in Threads :
             pc[t] = "dispatch_create" /\ pc'[t] = "done" /\ ret'[t] = "-1"
                 => ~ntf_tid']_vars

\* C35: if the caller's module callback (with its user data) is set in the
\* context when nc_ctx_check_and_fill() is called, it is the callback that is
\* set when nc_ctx_check_and_fill() has returned, whatever is returned: the
\* function takes the caller's callback out of the context only with old_clb
\* remembering it, and a remembered callback is the one set at the return.
C35_UserCallbackRestored ==
    /\ [][(clb = "user" /\ clb' # "user") => fill'.old_clb = "user"]_vars
    /\ [](fill.pc = "returned" /\ fill.old_clb = "user" => clb = "user")

\* C36: whenever libyang_module_clb() goes on to read reply->type after its
\* nc_recv_reply() call, that is whenever the call returned neither
\* NC_MSG_WOULDBLOCK nor NC_MSG_ERROR, the call has produced a reply.
C36_ReplyReadOnlyWhenProduced ==
    [][\A t \in Threads :
          /\ fetch[t].pc = "recv" /\ fetch'[t].pc # "recv"
          /\ ret[t] \notin {"WOULDBLOCK", "ERROR"}
          => msg[t] # NULL]_vars

\* the entries client_opts holds: the first ch_bind_count slots of ch_binds
BindsLeft(c) == {c.ch_binds[i] : i \in 1..c.ch_bind_count}

\* C37: when nc_client_ch_del_bind(address, port, ti) has returned, the
\* entries left are exactly the entries it started with that do not match
\* all the given criteria, ch_bind_count is their number, and it has returned
\* 0 exactly if one of the entries it started with matched.
C37_DelBindRemovesEveryMatch ==
    call.pc = "returned" /\ "old" \in DOMAIN call =>
        LET kept == {call.old[i] : i \in 1..Len(call.old)} \
                    {e \in BindEntries : BindMatches(e, call.address, call.port, call.ti)}
        IN /\ BindsLeft(call) = kept
           /\ call.ch_bind_count = Cardinality(kept)
           /\ call.ret = 0 <=> Cardinality(kept) < Len(call.old)

====
